---- MODULE Spec2Model ----
(***************************************************************************)
(* Radar (tjs-w/radar), React front end: the app reducer, the              *)
(* useBackendService hook (scan lifecycle, safety timeout, listeners) and  *)
(* the multicast / hostname helpers, as state machines.                    *)
(*                                                                         *)
(* Strings are TLA+ strings; TLC evaluates \o, Len and SubSeq on them, so  *)
(* template strings, split and parseInt are computed character by          *)
(* character.                                                              *)
(***************************************************************************)
EXTENDS Integers, Sequences, FiniteSets, TLC

VARIABLES
    state,           \* AppState of AppContext.tsx: isScanning, services, publicNetworkInfo, filter
    scanProgress,    \* useBackendService: useState(0)
    error,           \* useBackendService: useState<string | null>(null)
    scanStartTime,   \* useBackendService: useState<Date | null>(null); a Date is its creation number
    scanTimeoutRef,  \* useBackendService: useRef<number | null>(null)
    rendered,        \* what the last render saw: the closures' isScanning and the effect deps
    timers,          \* window timers pending: set of [id, remaining]
    nextTimerId,     \* the id window.setTimeout returns next
    nextDate,        \* the number of the next new Date()
    startCalls,      \* invoke('run_network_scan') promises not yet settled
    stopCalls,       \* invoke('stop_network_scan') promises not yet settled
    backendRunning,  \* the native backend has a running scan
    initPc,          \* initializeApp: "fetch" (awaiting fetchPublicNetworkInfo) or "done"
    registered,      \* event names with a listener registered by setupScanListeners
    inflight,        \* backend events emitted and not yet delivered: set of [id, name, payload]
    nextEventId,     \* number of the next emitted event
    handled,         \* log of onServiceDiscovered calls: [event, service, isNew, notified]
    permission,      \* notification plugin: "granted", "denied" or "default"
    sent,            \* notifications handed to sendNotification: sequence of [title, body]
    pluginWorks,     \* the notification plugin is enabled: sendNotification succeeds
    startOverlap,    \* history: run_network_scan was invoked while isScanning was already true
    consecStops,     \* history: successful stopNetworkScan completions in succession (0..2)
    stopSnap,        \* history: the observable state before and after the first of them
    ipToHostnameMap, \* useHostnameMapping: useState<Record<string, string>>({})
    hosts,           \* NetworkHostGroup: the memoised list of [ip, hostname, services]
    mounted,         \* useBackendService's listener effect has run and not been cleaned up
    setups,          \* setupScanListeners calls awaiting a listen(): set of [call, pc]
    nextSetup,       \* number of the next setupScanListeners call
    listening,       \* handlers registered with the event system: set of [call, name]
    listenerCleanupFunctions, \* BackendService: the unlisten functions, as [call, name]
    retryInterval,   \* the retry effect's setInterval: [active, remaining]
    fetchCalls,      \* fetchPublicNetworkInfo calls issued by the interval, not yet settled
    renderedInfo,    \* the retry effect's last run: [info, current], the publicNetworkInfo it
                     \* saw and whether no newer object has been stored since
    buttonIsScanning,\* ScanButton: useState(false), its isScanning
    buttonRendered,  \* ScanButton: the isScanning its last render saw (closure, disabled)
    timeoutRef,      \* ScanButton: useRef<number | null>(null)
    buttonTimers,    \* ScanButton: its window timers pending: set of [id, remaining]
    nextButtonTimer, \* ScanButton: the id window.setTimeout returns next
    buttonCalls,     \* ScanButton: handleScan calls awaiting startNetworkScan()
    toggles,         \* ScanButton: log of setScanningState calls, the scanning value notified
    groupBy,         \* ServiceGrouping: its groupBy prop
    renderedGroups,  \* ServiceGrouping: the last render, [services, groups]: the list it was given and the [key, services] groups it rendered
    errorLog,        \* BackendService listeners: event names whose callback error was caught and logged
    uncaught,        \* BackendService listeners: event names whose listener let a callback error escape
    currentConfig,   \* logger.ts: the logger's configuration (minLevel, enableConsole)
    console,         \* the entries written to the console by the logger, oldest first
    logCalls         \* number of calls of logger.debug/info/warn/error made

\* ------------------------------------------------------------------ bounds
\* Longest services list an ADD_SERVICE may build.
MaxServices == 3
\* Service events the backend emits in one run of the event listeners.
MaxEvents == 2
\* Service events the backend emits in one run of the scan lifecycle.
MaxScanEvents == 1
\* startNetworkScan calls in one run (each takes a new Date()).
MaxStarts == 2
\* stop_network_scan calls the scan button may have under way at once.
MaxStopCalls == 1
\* Milliseconds one step of the clock advances the window timers by.
TickMs == 60000

\* ------------------------------------------------------------- data values
\* NetworkService.port is optional (number | undefined); NoPort is undefined.
NoPort == -1
\* A nullable value (string | null, PublicNetworkInfo | null): None, or Some(v).
None == <<>>
Some(v) == <<v>>

\* {} as a Record<string, string>: a function from keys to values.
EmptyMap == [key \in {} |-> ""]

\* Decimal digits of template-string number formatting.
DigitChar(d) == SubSeq("0123456789", d + 1, d + 1)

RECURSIVE NumToStr(_)
NumToStr(n) == IF n < 10 THEN DigitChar(n) ELSE NumToStr(n \div 10) \o DigitChar(n % 10)

\* `${service.port}`: "undefined" for a missing port, the decimal number otherwise.
PortToStr(p) == IF p = NoPort THEN "undefined" ELSE NumToStr(p)

\* AppContext.tsx getServiceKey: `${name}:${address}:${port}`.
getServiceKey(service) ==
    service.name \o ":" \o service.address \o ":" \o PortToStr(service.port)

\* The (name, address, port) triple of a service.
Triple(s) == <<s.name, s.address, s.port>>

\* s.name === a.name && s.address === a.address && s.port === a.port
SameTriple(s, a) == s.name = a.name /\ s.address = a.address /\ s.port = a.port

\* Array.prototype.filter / map over a sequence.
RECURSIVE SeqFilterKeyNot(_, _)
SeqFilterKeyNot(seq, serviceId) ==
    IF seq = <<>> THEN <<>>
    ELSE IF getServiceKey(Head(seq)) # serviceId
         THEN <<Head(seq)>> \o SeqFilterKeyNot(Tail(seq), serviceId)
         ELSE SeqFilterKeyNot(Tail(seq), serviceId)

SeqMapReplace(seq, service) ==
    [i \in 1..Len(seq) |->
        IF getServiceKey(seq[i]) = getServiceKey(service) THEN service ELSE seq[i]]

\* ---------------------------------------------------------------- reducer
initialState ==
    [isScanning |-> FALSE, services |-> <<>>, publicNetworkInfo |-> None, filter |-> ""]

\* case 'ADD_SERVICE' with the find() dropped: every dispatch appends.
ReduceAddServiceNoFind(st, service) ==
    [st EXCEPT !.services = Append(st.services, service)]

\* case 'ADD_SERVICE' putting a new service first: [service, ...services].
ReduceAddServiceFirst(st, service) ==
    IF \E i \in 1..Len(st.services) : SameTriple(st.services[i], service)
    THEN st
    ELSE [st EXCEPT !.services = <<service>> \o st.services]

\* case 'ADD_SERVICE': state.services.find(same triple) ? state : [...services, service]
ReduceAddService(st, service) ==
    IF \E i \in 1..Len(st.services) : SameTriple(st.services[i], service)
    THEN st
    ELSE [st EXCEPT !.services = Append(st.services, service)]

\* case 'STOP_SCAN' written as a toggle.
ReduceStopScanToggle(st) == [st EXCEPT !.isScanning = ~st.isScanning]

\* case 'STOP_SCAN': { ...state, isScanning: false }
ReduceStopScan(st) == [st EXCEPT !.isScanning = FALSE]

\* appReducer(state, action)
appReducer(st, action) ==
    CASE action.type = "START_SCAN" -> [st EXCEPT !.isScanning = TRUE]
      [] action.type = "STOP_SCAN" -> ReduceStopScan(st)
      [] action.type = "ADD_SERVICE" -> ReduceAddService(st, action.service)
      [] action.type = "REMOVE_SERVICE" ->
            [st EXCEPT !.services = SeqFilterKeyNot(st.services, action.serviceId)]
      [] action.type = "UPDATE_SERVICE" ->
            [st EXCEPT !.services = SeqMapReplace(st.services, action.service)]
      [] action.type = "CLEAR_SERVICES" -> [st EXCEPT !.services = <<>>]
      [] action.type = "SET_PUBLIC_INFO" -> [st EXCEPT !.publicNetworkInfo = Some(action.info)]
      [] action.type = "UPDATE_FILTER" -> [st EXCEPT !.filter = action.filter]
      [] OTHER -> st

\* ------------------------------------------------------------ state groups
hookVars == <<scanProgress, error, scanStartTime, scanTimeoutRef, rendered>>
timerVars == <<timers, nextTimerId, nextDate>>
backendVars == <<startCalls, stopCalls, backendRunning, initPc>>
eventVars == <<registered, inflight, nextEventId>>
notifyVars == <<handled, permission, sent, pluginWorks>>
histVars == <<startOverlap, consecStops, stopSnap>>
hostVars == <<ipToHostnameMap, hosts>>
listenerVars == <<mounted, setups, nextSetup, listening, listenerCleanupFunctions>>
retryVars == <<retryInterval, fetchCalls, renderedInfo>>
buttonVars == <<buttonIsScanning, buttonRendered, timeoutRef, buttonTimers, nextButtonTimer, buttonCalls, toggles>>
groupingVars == <<groupBy, renderedGroups>>
callbackVars == <<errorLog, uncaught>>
loggerVars == <<currentConfig, console, logCalls>>
vars == <<state, hookVars, timerVars, backendVars, eventVars, notifyVars, histVars, hostVars,
          listenerVars, retryVars,
          buttonVars,
          groupingVars,
          callbackVars,
          loggerVars>>

\* The observable result of the hook: isScanning, services, scanProgress, error.
Obs == [isScanning |-> state.isScanning, services |-> state.services,
        scanProgress |-> scanProgress, error |-> error]

\* ----------------------------------------------------------------- logger
\* enum LogLevel: each member's value is its own name as a string.
LogLevel == {"DEBUG", "INFO", "WARN", "ERROR"}

\* defaultConfig: minLevel is DEBUG and the console is on in a development
\* build (isDev), minLevel is WARN and the console is off otherwise.
defaultConfig(isDev) ==
    [minLevel |-> IF isDev THEN "DEBUG" ELSE "WARN", enableConsole |-> isDev]

\* The logger as its module is loaded in a production build, no call made.
LoggerInit ==
    /\ currentConfig = defaultConfig(FALSE)
    /\ console = <<>>
    /\ logCalls = 0

\* The ScanButton as mounted: idle, no timer set.
ButtonInit ==
    /\ buttonIsScanning = FALSE
    /\ buttonRendered = FALSE
    /\ timeoutRef = 0
    /\ buttonTimers = {}
    /\ nextButtonTimer = 1
    /\ buttonCalls = 0
    /\ toggles = <<>>

\* The components outside the hook as mounted: ServiceGrouping as MainContent
\* uses it, groupBy="discovery_method", nothing rendered yet.
ComponentsInit ==
    /\ ButtonInit
    /\ groupBy = "discovery_method"
    /\ renderedGroups = [services |-> <<>>, groups |-> <<>>]
    /\ errorLog = <<>> /\ uncaught = <<>>
    /\ LoggerInit

\* The listeners set up and no setup call under way; no retry interval, no fetch.
SideInit ==
    /\ mounted = TRUE
    /\ setups = {}
    /\ nextSetup = 1
    /\ listening = {}
    /\ listenerCleanupFunctions = <<>>
    /\ retryInterval = [active |-> FALSE, remaining |-> 0]
    /\ fetchCalls = 0
    /\ renderedInfo = [info |-> None, current |-> TRUE]
    /\ ComponentsInit

\* After mount: AppProvider's initialState, the hook's useState/useRef initial values,
\* the first render's effects run (no timer armed), no call or event under way.
InitCommon ==
    /\ state = initialState
    /\ scanProgress = 0
    /\ error = None
    /\ scanStartTime = 0
    /\ scanTimeoutRef = 0
    /\ rendered = [isScanning |-> FALSE, scanStartTime |-> 0]
    /\ timers = {}
    /\ nextTimerId = 1
    /\ nextDate = 1
    /\ startCalls = 0
    /\ stopCalls = 0
    /\ backendRunning = FALSE
    /\ initPc = "done"
    /\ registered = {}
    /\ inflight = {}
    /\ nextEventId = 1
    /\ handled = <<>>
    /\ permission = "granted"
    /\ sent = <<>>
    /\ pluginWorks = TRUE
    /\ startOverlap = FALSE
    /\ consecStops = 0
    /\ stopSnap = <<>>
    /\ ipToHostnameMap = EmptyMap
    /\ hosts = <<>>
    /\ SideInit

\* --------------------------------------------------------------------
\* The reducer alone: any sequence of the eight actions (AppContext.tsx).
\* --------------------------------------------------------------------
NetworkService(name, address, port, service_type) ==
    [name |-> name, address |-> address, port |-> port, service_type |-> service_type,
     discovery_method |-> "mdns", details |-> "", is_secure |-> FALSE, response_time |-> 0]

\* Services the reducer is driven with. Names are protocol-supplied free text and
\* IPv6 addresses hold colons: "tv" at fe80:1::2 and "tv:fe80" at 1::2 are two services.
ReducerServices ==
    { NetworkService(k[1], k[2], 80, t) :
        k \in {<<"tv", "fe80:1::2">>, <<"tv:fe80", "1::2">>, <<"tv", "1::2">>},
        t \in {"_http._tcp", "_ipp._tcp"} }
      \cup {NetworkService("tv", "1::2", NoPort, "_http._tcp")}

PublicInfos ==
    {[internet_available |-> TRUE, public_ip |-> Some("1.2.3.4"), error |-> None],
     [internet_available |-> FALSE, public_ip |-> None, error |-> Some("offline")]}

Filters == {"", "tv"}

Dispatch(action) ==
    /\ state' = appReducer(state, action)
    /\ UNCHANGED <<hookVars, timerVars, backendVars, eventVars, notifyVars, histVars, hostVars, listenerVars, retryVars, buttonVars, groupingVars, callbackVars, loggerVars>>

DispatchStartScan == Dispatch([type |-> "START_SCAN"])

DispatchStopScan == Dispatch([type |-> "STOP_SCAN"])

DispatchAddService ==
    \E s \in ReducerServices :
        /\ Len(state.services) < MaxServices
        /\ Dispatch([type |-> "ADD_SERVICE", service |-> s])

DispatchRemoveService ==
    \E s \in ReducerServices :
        Dispatch([type |-> "REMOVE_SERVICE", serviceId |-> getServiceKey(s)])

DispatchUpdateService ==
    \E s \in ReducerServices : Dispatch([type |-> "UPDATE_SERVICE", service |-> s])

DispatchClearServices == Dispatch([type |-> "CLEAR_SERVICES"])

DispatchSetPublicInfo ==
    \E info \in PublicInfos : Dispatch([type |-> "SET_PUBLIC_INFO", info |-> info])

DispatchUpdateFilter ==
    \E f \in Filters : Dispatch([type |-> "UPDATE_FILTER", filter |-> f])

NextReducer ==
    \/ DispatchStartScan
    \/ DispatchStopScan
    \/ DispatchAddService
    \/ DispatchRemoveService
    \/ DispatchUpdateService
    \/ DispatchClearServices
    \/ DispatchSetPublicInfo
    \/ DispatchUpdateFilter

SpecReducer == InitCommon /\ [][NextReducer]_vars

\* C1 (as claimed): in every state reachable by reducer actions, no two entries of
\* state.services have the same (name, address, port) triple.
C1_NoDuplicateTriples ==
    \A i, j \in 1..Len(state.services) :
        i # j => Triple(state.services[i]) # Triple(state.services[j])

\* --------------------------------------------------------------------
\* Service events: the backend emits, the listeners of setupScanListeners
\* call onServiceDiscovered (backendService.ts, useBackendNetwork).
\* --------------------------------------------------------------------
\* The event names setupScanListeners listens on when given all four callbacks.
ServiceEventNames == {"service-discovered", "serviceDiscovered", "service_discovered"}
AllEventNames == ServiceEventNames \cup {"scan-progress", "scan-complete", "scan-error"}

\* notificationService.ts showSystemNotification, its three plugin calls in one step:
\* isPermissionGranted(), requestPermission() when not granted (answering `answer`),
\* sendNotification() when granted (succeeding iff `sendOk`). The result is
\* [shown, permission, sent].
showSystemNotification(title, body, perm, answer, sendOk, sentSoFar) ==
    LET asked == perm # "granted"
        permissionGranted == IF asked THEN answer = "granted" ELSE TRUE
        shown == permissionGranted /\ sendOk
    IN [shown |-> shown,
        permission |-> IF asked THEN answer ELSE perm,
        sent |-> IF shown THEN Append(sentSoFar, [title |-> title, body |-> body])
                 ELSE sentSoFar]

\* showServiceDiscoveredNotification(serviceName, serviceType, address)
showServiceDiscoveredNotification(serviceName, serviceType, address, perm, answer, sendOk, sentSoFar) ==
    showSystemNotification("New Network Service Discovered",
        serviceName \o " (" \o serviceType \o ") at " \o address,
        perm, answer, sendOk, sentSoFar)

\* useBackendService onServiceDiscovered: dispatch ADD_SERVICE, then notify.
onServiceDiscovered(eventName, service, answer) ==
    LET st2 == appReducer(state, [type |-> "ADD_SERVICE", service |-> service])
        n == showServiceDiscoveredNotification(service.name, service.service_type,
                 service.address, permission, answer, pluginWorks, sent)
    IN /\ state' = st2
       /\ permission' = n.permission
       /\ sent' = n.sent
       /\ UNCHANGED pluginWorks
       /\ handled' = Append(handled,
              [event |-> eventName, service |-> service,
               known |-> \E i \in 1..Len(state.services) :
                            Triple(state.services[i]) = Triple(service),
               added |-> Len(st2.services) > Len(state.services),
               shown |-> n.shown])

\* A listener of `eventName` takes one in-flight event of that name.
Deliver(eventName, e) ==
    /\ e \in inflight
    /\ e.name = eventName
    /\ eventName \in registered
    /\ inflight' = inflight \ {e}
    /\ UNCHANGED <<registered, nextEventId, buttonVars, groupingVars, callbackVars, loggerVars>>

\* listen('service-discovered', ...) -> listeners.onServiceDiscovered(event.payload)
DeliverServiceDiscovered ==
    \E e \in inflight, answer \in {"granted", "denied"} :
        /\ Deliver("service-discovered", e)
        /\ onServiceDiscovered(e.name, e.payload, answer)
        /\ consecStops' = 0
        /\ UNCHANGED <<hookVars, timerVars, backendVars, startOverlap, stopSnap, hostVars, listenerVars, retryVars, buttonVars, groupingVars, callbackVars, loggerVars>>

\* listen('serviceDiscovered', ...) -> listeners.onServiceDiscovered?.(event.payload)
DeliverServiceDiscoveredCamel ==
    \E e \in inflight, answer \in {"granted", "denied"} :
        /\ Deliver("serviceDiscovered", e)
        /\ onServiceDiscovered(e.name, e.payload, answer)
        /\ consecStops' = 0
        /\ UNCHANGED <<hookVars, timerVars, backendVars, startOverlap, stopSnap, hostVars, listenerVars, retryVars, buttonVars, groupingVars, callbackVars, loggerVars>>

\* listen('service_discovered', ...) -> listeners.onServiceDiscovered?.(event.payload)
DeliverServiceDiscoveredUnderscore ==
    \E e \in inflight, answer \in {"granted", "denied"} :
        /\ Deliver("service_discovered", e)
        /\ onServiceDiscovered(e.name, e.payload, answer)
        /\ consecStops' = 0
        /\ UNCHANGED <<hookVars, timerVars, backendVars, startOverlap, stopSnap, hostVars, listenerVars, retryVars, buttonVars, groupingVars, callbackVars, loggerVars>>

\* The services the backend reports here: a printer, the same printer with another
\* service_type, the same with other details, is_secure and response_time, and a
\* second service (another port).
Printer ==
    [name |-> "printer", address |-> "10.0.0.5", port |-> 631, service_type |-> "ipp",
     discovery_method |-> "mdns", details |-> "txt=1", is_secure |-> FALSE,
     response_time |-> 5]

EventServices ==
    {Printer,
     [Printer EXCEPT !.service_type = "ipps"],
     [Printer EXCEPT !.details = "txt=2", !.is_secure = TRUE, !.response_time = 9],
     [Printer EXCEPT !.port = NoPort]}

\* The backend emits a service event under one of the names the UI listens on.
EmitServiceEvent ==
    \E name \in ServiceEventNames, s \in EventServices :
        /\ nextEventId <= MaxEvents
        /\ inflight' = inflight \cup {[id |-> nextEventId, name |-> name, payload |-> s]}
        /\ nextEventId' = nextEventId + 1
        /\ UNCHANGED <<state, hookVars, timerVars, backendVars, registered, notifyVars,
                       histVars, hostVars, listenerVars, retryVars, buttonVars, groupingVars, callbackVars, loggerVars>>

InitEvents ==
    /\ state = initialState
    /\ scanProgress = 0 /\ error = None /\ scanStartTime = 0 /\ scanTimeoutRef = 0
    /\ rendered = [isScanning |-> FALSE, scanStartTime |-> 0]
    /\ timers = {} /\ nextTimerId = 1 /\ nextDate = 1
    /\ startCalls = 0 /\ stopCalls = 0 /\ backendRunning = FALSE /\ initPc = "done"
    /\ registered = AllEventNames
    /\ inflight = {} /\ nextEventId = 1
    /\ handled = <<>> /\ sent = <<>>
    /\ permission \in {"granted", "default", "denied"}
    /\ pluginWorks \in BOOLEAN
    /\ startOverlap = FALSE /\ consecStops = 0 /\ stopSnap = <<>>
    /\ ipToHostnameMap = EmptyMap /\ hosts = <<>>
    /\ SideInit

NextEvents ==
    \/ EmitServiceEvent
    \/ DeliverServiceDiscovered
    \/ DeliverServiceDiscoveredCamel
    \/ DeliverServiceDiscoveredUnderscore

SpecEvents == InitEvents /\ [][NextEvents]_vars

Last(seq) == seq[Len(seq)]

\* C2 (as claimed): after a service-discovered event whose (name, address, port) is
\* already stored, the stored entry holds the values of that newest event.
C2_LaterDataWins ==
    handled # <<>> =>
        \A i \in 1..Len(state.services) :
            Triple(state.services[i]) = Triple(Last(handled).service)
                => state.services[i] = Last(handled).service

\* C3 (as claimed): a notification is raised only for an event whose triple was not
\* yet in state.services, so events with the same triple and identical fields raise
\* at most one notification between them.
C3_NotifyOnlyNew ==
    /\ \A i \in 1..Len(handled) : handled[i].shown => ~handled[i].known
    /\ \A i, j \in 1..Len(handled) :
          (i # j /\ handled[i].service = handled[j].service)
              => ~(handled[i].shown /\ handled[j].shown)

\* C4: of two service events with the same (name, address, port), whatever the order
\* of delivery and whichever event names carry them, at most one adds an entry to
\* state.services, and the list never holds the triple twice.
C4_AtMostOneAdds ==
    /\ \A i, j \in 1..Len(handled) :
          (i # j /\ Triple(handled[i].service) = Triple(handled[j].service))
              => ~(handled[i].added /\ handled[j].added)
    /\ \A i, j \in 1..Len(state.services) :
          i # j => Triple(state.services[i]) # Triple(state.services[j])

\* Two events of one triple came in under different event names; the first added the
\* entry and the second did not.
C4_Witness ==
    \E i, j \in 1..Len(handled) :
        /\ i < j
        /\ Triple(handled[i].service) = Triple(handled[j].service)
        /\ handled[i].event # handled[j].event
        /\ handled[i].added /\ ~handled[j].added
        /\ Len(state.services) = 1

\* --------------------------------------------------------------------
\* The scan lifecycle: useBackendService, AppContainer, the backend.
\* --------------------------------------------------------------------
\* const MAX_SCAN_DURATION = 60 * 1000
MAX_SCAN_DURATION == 60 * 1000

ObsOf(st, progress, err) ==
    [isScanning |-> st.isScanning, services |-> st.services,
     scanProgress |-> progress, error |-> err]

\* History kept for "twice in succession": any step but a stop forgets it.
ForgetStops == consecStops' = 0 /\ stopSnap' = <<>>

\* startNetworkScan up to its await: setError(null), setScanProgress(0), START_SCAN,
\* setScanStartTime(new Date()), invoke('run_network_scan').
startNetworkScan ==
    /\ nextDate <= MaxStarts
    /\ error' = None
    /\ scanProgress' = 0
    /\ state' = appReducer(state, [type |-> "START_SCAN"])
    /\ scanStartTime' = nextDate
    /\ nextDate' = nextDate + 1
    /\ startCalls' = startCalls + 1
    /\ startOverlap' = (startOverlap \/ state.isScanning)
    /\ ForgetStops

\* stopNetworkScan up to its await: invoke('stop_network_scan').
stopNetworkScan == stopCalls' = stopCalls + 1

\* fetchPublicNetworkInfo with errorMessage = err.message and no default text.
fetchPublicNetworkInfoNoDefault(outcome) ==
    IF outcome.kind = "resolved"
    THEN [info |-> [internet_available |->
                        IF outcome.internet_available = "undefined"
                        THEN outcome.ip # None /\ outcome.ip # Some("")
                        ELSE outcome.internet_available = "true",
                    public_ip |-> outcome.ip, error |-> None],
          error |-> error]
    ELSE [info |-> [internet_available |-> FALSE, public_ip |-> None,
                    error |-> outcome.message],
          error |-> outcome.message]

\* The result of useBackendService fetchPublicNetworkInfo for one outcome of
\* backendService.getPublicNetworkInfo: [info, error]. A resolved call maps the Rust
\* record (internet_available a boolean, or else !!ip); a rejected one stores the
\* fallback record and sets error to err.message || 'Failed to fetch ...'.
fetchPublicNetworkInfo(outcome) ==
    IF outcome.kind = "resolved"
    THEN [info |-> [internet_available |->
                        IF outcome.internet_available = "undefined"
                        THEN outcome.ip # None /\ outcome.ip # Some("")
                        ELSE outcome.internet_available = "true",
                    public_ip |-> outcome.ip, error |-> None],
          error |-> error]
    ELSE LET errorMessage == IF outcome.message = None \/ outcome.message = Some("")
                             THEN "Failed to fetch public network information"
                             ELSE outcome.message[1]
         IN [info |-> [internet_available |-> FALSE, public_ip |-> None,
                       error |-> Some(errorMessage)],
             error |-> Some(errorMessage)]

\* What get_public_network_info answers at mount.
FetchOutcomes ==
    {[kind |-> "resolved", ip |-> Some("1.2.3.4"), internet_available |-> "undefined"],
     [kind |-> "rejected", message |-> None]}

\* AppContainer initializeApp, resumed when fetchPublicNetworkInfo settles: the
\* info is stored and startNetworkScan is called, whatever isScanning is.
InitializeAppResume ==
    \E outcome \in FetchOutcomes :
        LET r == fetchPublicNetworkInfo(outcome) IN
        /\ initPc = "fetch"
        /\ initPc' = "done"
        /\ nextDate <= MaxStarts
        /\ error' = None
        /\ scanProgress' = 0
        /\ state' = appReducer(
                appReducer(state, [type |-> "SET_PUBLIC_INFO", info |-> r.info]),
                [type |-> "START_SCAN"])
        /\ scanStartTime' = nextDate
        /\ nextDate' = nextDate + 1
        /\ startCalls' = startCalls + 1
        /\ startOverlap' = (startOverlap \/ state.isScanning)
        /\ ForgetStops
        /\ UNCHANGED <<scanTimeoutRef, rendered, timers, nextTimerId, stopCalls,
                       backendRunning, eventVars, notifyVars, hostVars, listenerVars, retryVars, buttonVars, groupingVars, callbackVars, loggerVars>>

\* AppContainer handleScan, not scanning in the render it closes over.
ClickScanStart ==
    /\ ~rendered.isScanning
    /\ startNetworkScan
    /\ UNCHANGED <<scanTimeoutRef, rendered, timers, nextTimerId, stopCalls,
                   backendRunning, initPc, eventVars, notifyVars, hostVars, listenerVars, retryVars, buttonVars, groupingVars, callbackVars, loggerVars>>

\* AppContainer handleScan, scanning in the render it closes over.
ClickScanStop ==
    /\ rendered.isScanning
    /\ stopCalls < MaxStopCalls
    /\ stopNetworkScan
    /\ UNCHANGED <<state, hookVars, timerVars, startCalls, backendRunning, initPc,
                   eventVars, notifyVars, histVars, hostVars, listenerVars, retryVars, buttonVars, groupingVars, callbackVars, loggerVars>>

\* run_network_scan resolves: startNetworkScan returns. The backend runs a scan.
StartResolved ==
    /\ startCalls > 0
    /\ startCalls' = startCalls - 1
    /\ backendRunning' = TRUE
    /\ ForgetStops
    /\ UNCHANGED <<state, hookVars, timerVars, stopCalls, initPc, eventVars, notifyVars,
                   startOverlap, hostVars, listenerVars, retryVars, buttonVars, groupingVars, callbackVars, loggerVars>>

\* String(err) of a rejection value: an Error prints as its name and message, a
\* string as itself.
String(err) == IF err.type = "Error" THEN "Error: " \o err.value ELSE err.value

\* The message taken as String(err) whatever err is.
RejectionMessageString(err) == String(err)

\* err instanceof Error ? err.message : String(err)
RejectionMessage(err) == IF err.type = "Error" THEN err.value ELSE String(err)

\* What invoke('run_network_scan') rejects with: an Error, or the string of the
\* command's Err.
StartErrors ==
    {[type |-> "Error", value |-> "scan already running"],
     [type |-> "string", value |-> "scan already running"]}

\* run_network_scan rejects with err: catch { setError(message); STOP_SCAN }.
StartRejectedWith(err) ==
    /\ startCalls > 0
    /\ startCalls' = startCalls - 1
    /\ error' = Some(RejectionMessage(err))
    /\ state' = appReducer(state, [type |-> "STOP_SCAN"])
    /\ ForgetStops
    /\ UNCHANGED <<scanProgress, scanStartTime, scanTimeoutRef, rendered, timerVars,
                   stopCalls, backendRunning, initPc, eventVars, notifyVars,
                   startOverlap, hostVars, listenerVars, retryVars, buttonVars, groupingVars, callbackVars, loggerVars>>

StartRejected == \E err \in StartErrors : StartRejectedWith(err)

\* The terminal event of a scan the backend ends.
ScanCompleteEvent == [id |-> 0, name |-> "scan-complete", payload |-> None]

\* stop_network_scan resolves: STOP_SCAN, setScanProgress(0), setScanStartTime(null).
\* The backend has cancelled its scan, if any, and reports the end of it.
StopResolved ==
    /\ stopCalls > 0
    /\ stopCalls' = stopCalls - 1
    /\ state' = appReducer(state, [type |-> "STOP_SCAN"])
    /\ scanProgress' = 0
    /\ scanStartTime' = 0
    /\ backendRunning' = FALSE
    /\ inflight' = IF backendRunning THEN inflight \cup {ScanCompleteEvent} ELSE inflight
    /\ consecStops' = IF consecStops = 0 THEN 1 ELSE 2
    /\ stopSnap' = IF consecStops = 0
                   THEN <<[errorBefore |-> error,
                           after |-> ObsOf(state', scanProgress', error)]>>
                   ELSE stopSnap
    /\ UNCHANGED <<error, scanTimeoutRef, rendered, timerVars, startCalls, initPc,
                   registered, nextEventId, notifyVars, startOverlap, hostVars, listenerVars, retryVars, buttonVars, groupingVars, callbackVars, loggerVars>>

StopErrors == {[type |-> "string", value |-> "stop failed"]}

\* stop_network_scan rejects: catch { setError(message); STOP_SCAN }.
StopRejected ==
    \E err \in StopErrors :
        /\ stopCalls > 0
        /\ stopCalls' = stopCalls - 1
        /\ error' = Some(RejectionMessage(err))
        /\ state' = appReducer(state, [type |-> "STOP_SCAN"])
        /\ ForgetStops
        /\ UNCHANGED <<scanProgress, scanStartTime, scanTimeoutRef, rendered, timerVars,
                       startCalls, backendRunning, initPc, eventVars, notifyVars,
                       startOverlap, hostVars, listenerVars, retryVars, buttonVars, groupingVars, callbackVars, loggerVars>>

\* The safety effect's cleanup (the return of the effect): clear the timer of the ref.
EffectCleanup(ref, pending) ==
    IF ref # 0
    THEN [ref |-> 0, timers |-> {t \in pending : t.id # ref}]
    ELSE [ref |-> ref, timers |-> pending]

\* The safety effect without its setTimeout: nothing is ever armed.
SafetyEffectNeverArms(isScanning, startTime, ref, pending, newId) ==
    [ref |-> 0, timers |-> {}, armed |-> FALSE]

\* The safety effect's body for the rendered isScanning and scanStartTime.
SafetyEffect(isScanning, startTime, ref, pending, newId) ==
    IF isScanning /\ startTime # 0
    THEN [ref |-> newId,
          timers |-> {t \in pending : ref = 0 \/ t.id # ref}
                        \cup {[id |-> newId, remaining |-> MAX_SCAN_DURATION]},
          armed |-> TRUE]
    ELSE [ref |-> 0, timers |-> {t \in pending : ref = 0 \/ t.id # ref}, armed |-> FALSE]

\* A render commits the state: closures see it, and the safety effect, whose deps
\* [state.isScanning, scanStartTime] changed, runs its cleanup and then its body.
Render ==
    LET c == EffectCleanup(scanTimeoutRef, timers)
        e == SafetyEffect(state.isScanning, scanStartTime, c.ref, c.timers, nextTimerId)
    IN /\ rendered # [isScanning |-> state.isScanning, scanStartTime |-> scanStartTime]
       /\ rendered' = [isScanning |-> state.isScanning, scanStartTime |-> scanStartTime]
       /\ scanTimeoutRef' = e.ref
       /\ timers' = e.timers
       /\ nextTimerId' = IF e.armed THEN nextTimerId + 1 ELSE nextTimerId
       /\ UNCHANGED <<state, scanProgress, error, scanStartTime, nextDate, backendVars,
                      eventVars, notifyVars, histVars, hostVars, listenerVars, retryVars, buttonVars, groupingVars, callbackVars, loggerVars>>

\* No render is pending: the safety effect has run for the current values of its
\* deps [state.isScanning, scanStartTime].
SafetyEffectCurrent ==
    rendered = [isScanning |-> state.isScanning, scanStartTime |-> scanStartTime]

\* Time passes: every pending timer is TickMs closer to firing. React commits a
\* pending render within the same turn of the event loop, long before TickMs pass.
Tick ==
    /\ SafetyEffectCurrent
    /\ \E t \in timers : t.remaining > 0
    /\ timers' = {[id |-> t.id,
                   remaining |-> IF t.remaining > TickMs THEN t.remaining - TickMs ELSE 0] :
                      t \in timers}
    /\ UNCHANGED <<state, hookVars, nextTimerId, nextDate, backendVars, eventVars,
                   notifyVars, histVars, hostVars, listenerVars, retryVars, buttonVars, groupingVars, callbackVars, loggerVars>>

\* The timer set by the safety effect fires: stopNetworkScan().
SafetyTimeout ==
    \E t \in timers :
        /\ t.remaining = 0
        /\ timers' = timers \ {t}
        /\ stopNetworkScan
        /\ UNCHANGED <<state, hookVars, nextTimerId, nextDate, startCalls, backendRunning,
                       initPc, eventVars, notifyVars, histVars, hostVars, listenerVars, retryVars, buttonVars, groupingVars, callbackVars, loggerVars>>

\* --- the backend's events while it scans -----------------------------
ScanServices == {Printer}

BackendEmitService ==
    \E s \in ScanServices :
        /\ backendRunning
        /\ nextEventId <= MaxScanEvents
        /\ inflight' = inflight \cup
                {[id |-> nextEventId, name |-> "service-discovered", payload |-> s]}
        /\ nextEventId' = nextEventId + 1
        /\ UNCHANGED <<state, hookVars, timerVars, backendVars, registered, notifyVars,
                       histVars, hostVars, listenerVars, retryVars, buttonVars, groupingVars, callbackVars, loggerVars>>

ProgressValues == {50}

BackendEmitProgress ==
    \E p \in ProgressValues :
        /\ backendRunning
        /\ inflight' = inflight \cup
                {[id |-> 0, name |-> "scan-progress", payload |-> [progress |-> p]]}
        /\ UNCHANGED <<state, hookVars, timerVars, backendVars, registered, nextEventId,
                       notifyVars, histVars, hostVars, listenerVars, retryVars, buttonVars, groupingVars, callbackVars, loggerVars>>

\* The backend's scan ends by itself.
BackendComplete ==
    /\ backendRunning
    /\ backendRunning' = FALSE
    /\ inflight' = inflight \cup {ScanCompleteEvent}
    /\ UNCHANGED <<state, hookVars, timerVars, startCalls, stopCalls, initPc, registered,
                   nextEventId, notifyVars, histVars, hostVars, listenerVars, retryVars, buttonVars, groupingVars, callbackVars, loggerVars>>

ScanErrors == {"no probe could start"}

\* The backend's scan fails as a whole.
BackendError ==
    \E msg \in ScanErrors :
        /\ backendRunning
        /\ backendRunning' = FALSE
        /\ inflight' = inflight \cup
                {[id |-> 0, name |-> "scan-error", payload |-> [error |-> msg]]}
        /\ UNCHANGED <<state, hookVars, timerVars, startCalls, stopCalls, initPc,
                       registered, nextEventId, notifyVars, histVars, hostVars, listenerVars, retryVars, buttonVars, groupingVars, callbackVars, loggerVars>>

\* listen('scan-progress') -> listeners.onProgress(event.payload.progress):
\* setScanProgress(progress)
DeliverScanProgress ==
    \E e \in inflight :
        /\ Deliver("scan-progress", e)
        /\ scanProgress' = e.payload.progress
        /\ ForgetStops
        /\ UNCHANGED <<state, error, scanStartTime, scanTimeoutRef, rendered, timerVars,
                       backendVars, notifyVars, startOverlap, hostVars, listenerVars, retryVars, buttonVars, groupingVars, callbackVars, loggerVars>>

\* listen('scan-complete') -> handleComplete: STOP_SCAN, setScanProgress(100)
DeliverScanComplete ==
    \E e \in inflight :
        /\ Deliver("scan-complete", e)
        /\ state' = appReducer(state, [type |-> "STOP_SCAN"])
        /\ scanProgress' = 100
        /\ ForgetStops
        /\ UNCHANGED <<error, scanStartTime, scanTimeoutRef, rendered, timerVars,
                       backendVars, notifyVars, startOverlap, hostVars, listenerVars, retryVars, buttonVars, groupingVars, callbackVars, loggerVars>>

\* handleError without its dispatch: the message is shown and the progress reset,
\* but the scan flag is left as it was.
handleErrorNoDispatch(errorMessage) ==
    /\ error' = Some(errorMessage)
    /\ state' = state
    /\ scanProgress' = 0

\* handleError: setError(errorMessage), dispatch STOP_SCAN, setScanProgress(0)
handleError(errorMessage) ==
    /\ error' = Some(errorMessage)
    /\ state' = appReducer(state, [type |-> "STOP_SCAN"])
    /\ scanProgress' = 0

\* listen('scan-error') -> listeners.onError(event.payload.error)
DeliverScanError ==
    \E e \in inflight :
        /\ Deliver("scan-error", e)
        /\ handleError(e.payload.error)
        /\ ForgetStops
        /\ UNCHANGED <<scanStartTime, scanTimeoutRef, rendered, timerVars, backendVars,
                       notifyVars, startOverlap, hostVars, listenerVars, retryVars, buttonVars, groupingVars, callbackVars, loggerVars>>

\* Mounted, listeners set up, initializeApp awaiting fetchPublicNetworkInfo.
InitScan ==
    /\ state = initialState
    /\ scanProgress = 0 /\ error = None /\ scanStartTime = 0 /\ scanTimeoutRef = 0
    /\ rendered = [isScanning |-> FALSE, scanStartTime |-> 0]
    /\ timers = {} /\ nextTimerId = 1 /\ nextDate = 1
    /\ startCalls = 0 /\ stopCalls = 0 /\ backendRunning = FALSE /\ initPc = "fetch"
    /\ registered = AllEventNames
    /\ inflight = {} /\ nextEventId = 1
    /\ handled = <<>> /\ sent = <<>> /\ permission = "granted" /\ pluginWorks = TRUE
    /\ startOverlap = FALSE /\ consecStops = 0 /\ stopSnap = <<>>
    /\ ipToHostnameMap = EmptyMap /\ hosts = <<>>
    /\ SideInit

NextScan ==
    \/ ClickScanStart
    \/ InitializeAppResume
    \/ ClickScanStop
    \/ StartResolved
    \/ StartRejected
    \/ StopResolved
    \/ StopRejected
    \/ Render
    \/ Tick
    \/ SafetyTimeout
    \/ BackendEmitService
    \/ BackendEmitProgress
    \/ BackendComplete
    \/ BackendError
    \/ DeliverServiceDiscovered
    \/ DeliverScanProgress
    \/ DeliverScanComplete
    \/ DeliverScanError

SpecScan == InitScan /\ [][NextScan]_vars

\* C6 (as claimed): run_network_scan is never invoked while isScanning is already true
\* from an earlier start that has not ended.
C6_OneScanAtATime == ~startOverlap

\* C7: a successful stopNetworkScan that directly follows a successful stopNetworkScan
\* leaves isScanning, services, scanProgress and error as the first left them, and
\* error is what it was before the first.
C7_StopIdempotent ==
    consecStops = 2 =>
        /\ Obs = stopSnap[1].after
        /\ error = stopSnap[1].errorBefore

\* Two stops completed in succession with services listed and an error on display.
C7_Witness ==
    /\ consecStops = 2
    /\ state.services # <<>>
    /\ error # None

\* C8 (as claimed): a stopNetworkScan completing while isScanning is false is a no-op,
\* here with the backend call succeeding: isScanning, services, scanProgress and
\* error are left unchanged.
C8_StopWhenIdleIsNoop ==
    [][(StopResolved /\ ~state.isScanning) => Obs' = Obs]_vars

\* C9 (as claimed): right after startNetworkScan begins a scan (none was running),
\* state.services is empty: nothing discovered before that start is listed.
C9_ScanStartsEmpty ==
    [][((ClickScanStart \/ InitializeAppResume) /\ ~state.isScanning)
          => state'.services = <<>>]_vars

\* --------------------------------------------------------------------
\* The safety timeout alone: scans are started, nobody stops them and the
\* backend reports no end of a scan. The timer fires once its time has
\* passed, renders happen and the backend answers every stop call.
\* --------------------------------------------------------------------
NextTimeout ==
    \/ ClickScanStart
    \/ InitializeAppResume
    \/ StartResolved
    \/ StartRejected
    \/ StopResolved
    \/ StopRejected
    \/ Render
    \/ Tick
    \/ SafetyTimeout

SpecTimeout ==
    /\ InitScan
    /\ [][NextTimeout]_vars
    /\ WF_vars(Render)
    /\ WF_vars(Tick)
    /\ WF_vars(SafetyTimeout)
    /\ WF_vars(StopResolved \/ StopRejected)

MaxHostServices == 2

CharAt(s, i) == SubSeq(s, i, i)

\* The characters \s matches, among those of the texts used here.
WhiteSpace == {" ", "\t", "\n", "\r"}

RECURSIVE IndexOfFrom(_, _, _)
\* The first position >= from at which sub occurs in s, 0 when there is none.
IndexOfFrom(s, sub, from) ==
    IF from + Len(sub) - 1 > Len(s) THEN 0
    ELSE IF SubSeq(s, from, from + Len(sub) - 1) = sub THEN from
    ELSE IndexOfFrom(s, sub, from + 1)

\* String.prototype.includes
includes(s, sub) == IndexOfFrom(s, sub, 1) # 0

RECURSIVE split(_, _)
\* String.prototype.split with a non-empty separator: "" gives <<"">>.
split(s, sep) ==
    LET p == IndexOfFrom(s, sep, 1)
    IN IF p = 0 THEN <<s>>
       ELSE <<SubSeq(s, 1, p - 1)>> \o split(SubSeq(s, p + Len(sep), Len(s)), sep)

RECURSIVE trimStart(_)
trimStart(s) ==
    IF s # "" /\ CharAt(s, 1) \in WhiteSpace THEN trimStart(SubSeq(s, 2, Len(s))) ELSE s

RECURSIVE trimEnd(_)
trimEnd(s) ==
    IF s # "" /\ CharAt(s, Len(s)) \in WhiteSpace THEN trimEnd(SubSeq(s, 1, Len(s) - 1))
    ELSE s

\* String.prototype.trim
trim(s) == trimEnd(trimStart(s))

LowerCaseLetters == "abcdefghijklmnopqrstuvwxyz"
UpperCaseLetters == "ABCDEFGHIJKLMNOPQRSTUVWXYZ"

\* The upper-case letter of each lower-case letter, and the reverse.
UpperOf ==
    [c \in {CharAt(LowerCaseLetters, i) : i \in 1..Len(LowerCaseLetters)} |->
        CharAt(UpperCaseLetters, IndexOfFrom(LowerCaseLetters, c, 1))]

LowerOf ==
    [c \in {CharAt(UpperCaseLetters, i) : i \in 1..Len(UpperCaseLetters)} |->
        CharAt(LowerCaseLetters, IndexOfFrom(UpperCaseLetters, c, 1))]

toUpperChar(c) == IF c \in DOMAIN UpperOf THEN UpperOf[c] ELSE c

toLowerChar(c) == IF c \in DOMAIN LowerOf THEN LowerOf[c] ELSE c

RECURSIVE toUpperCase(_)
toUpperCase(s) ==
    IF s = "" THEN "" ELSE toUpperChar(CharAt(s, 1)) \o toUpperCase(SubSeq(s, 2, Len(s)))

RECURSIVE toLowerCase(_)
toLowerCase(s) ==
    IF s = "" THEN "" ELSE toLowerChar(CharAt(s, 1)) \o toLowerCase(SubSeq(s, 2, Len(s)))

DecimalDigits == "0123456789"

ValueOfDigit ==
    [c \in {CharAt(DecimalDigits, i) : i \in 1..Len(DecimalDigits)} |->
        IndexOfFrom(DecimalDigits, c, 1) - 1]

\* The value of a decimal digit character, -1 for any other character.
DigitValue(c) == IF c \in DOMAIN ValueOfDigit THEN ValueOfDigit[c] ELSE -1

RECURSIVE DigitPrefixValue(_, _)
\* The value of the longest prefix of s made of decimal digits, continuing from acc.
DigitPrefixValue(s, acc) ==
    IF s = "" \/ DigitValue(CharAt(s, 1)) < 0 THEN acc
    ELSE DigitPrefixValue(SubSeq(s, 2, Len(s)), acc * 10 + DigitValue(CharAt(s, 1)))

\* parseInt(s, 10): leading white space is skipped, one sign is taken, then the
\* longest run of digits is read and whatever follows it is ignored; NaN (None)
\* when no digit is there. The result is Some(n).
NaN == None

parseInt(s) ==
    LET t == trimStart(s)
        signed == t # "" /\ CharAt(t, 1) \in {"+", "-"}
        u == IF signed THEN SubSeq(t, 2, Len(t)) ELSE t
    IN IF u = "" \/ DigitValue(CharAt(u, 1)) < 0 THEN NaN
       ELSE Some((IF signed /\ CharAt(t, 1) = "-" THEN -1 ELSE 1) * DigitPrefixValue(u, 0))

\* useHostnameMapping.ts isMulticastIP (split and parseInt do not throw on a string).
isMulticastIP(ip) ==
    LET parts == split(ip, ".")
    IN IF Len(parts) # 4 THEN FALSE
       ELSE LET firstOctet == parseInt(parts[1]) IN firstOctet = Some(239)

\* NetworkHostGroup.tsx isMulticastIP, the component's own copy of the function.
isMulticastIPHostGroup(ip) ==
    LET parts == split(ip, ".")
    IN IF Len(parts) # 4 THEN FALSE
       ELSE LET firstOctet == parseInt(parts[1]) IN firstOctet = Some(239)

\* ---- the regular expressions of the hostname extraction
\* A label such as /Host:/i or /[Ff]riendly[Nn]ame:/ is a sequence of character
\* sets: position k admits the k-th character of either spelling.
Label(spelling1, spelling2) ==
    [k \in 1..Len(spelling1) |-> {CharAt(spelling1, k), CharAt(spelling2, k)}]

\* /.../i over a label written in lower case.
LabelIgnoreCase(lower) == Label(lower, toUpperCase(lower))

LabelAt(s, label, p) ==
    \A k \in 1..Len(label) : p + k - 1 <= Len(s) /\ CharAt(s, p + k - 1) \in label[k]

RECURSIVE SkipSpace(_, _)
\* \s* taken greedily from position q: the first position it does not cover.
SkipSpace(s, q) ==
    IF q <= Len(s) /\ CharAt(s, q) \in WhiteSpace THEN SkipSpace(s, q + 1) ELSE q

RECURSIVE LineEnd(_, _)
\* [^\n]+ taken greedily from position q: the last position it covers.
LineEnd(s, q) ==
    IF q + 1 <= Len(s) /\ CharAt(s, q + 1) # "\n" THEN LineEnd(s, q + 1) ELSE q

\* \s*([^\n]+) from position q. When the white space runs to the end of the text,
\* \s* gives characters back until the group can take one, the last one that is
\* not a line feed. None when the group cannot match.
CaptureFrom(s, q) ==
    LET r == SkipSpace(s, q)
        back == {k \in q..Len(s) : CharAt(s, k) # "\n"}
    IN IF r <= Len(s) THEN Some(SubSeq(s, r, LineEnd(s, r)))
       ELSE IF back = {} THEN None
       ELSE LET k == CHOOSE x \in back : \A y \in back : y <= x
            IN Some(SubSeq(s, k, LineEnd(s, k)))

\* details.match(/<label>\s*([^\n]+)/): group 1 of the leftmost match, None for null.
match(s, label) ==
    LET starts == {p \in 1..Len(s) :
                     LabelAt(s, label, p) /\ CaptureFrom(s, p + Len(label)) # None}
    IN IF starts = {} THEN None
       ELSE LET p == CHOOSE x \in starts : \A y \in starts : x <= y
            IN CaptureFrom(s, p + Len(label))

\* The labels of the regular expressions below.
HostLabel == LabelIgnoreCase("host:")
FullNameLabel == LabelIgnoreCase("full name:")
HostnameLabel == LabelIgnoreCase("hostname:")
FriendlyNameLabel == Label("friendlyname:", "FriendlyName:")
NameLabel == Label("name:", "Name:")
NameIgnoreCaseLabel == LabelIgnoreCase("name:")
ServerLabel == LabelIgnoreCase("server:")

\* JSON.parse for the objects the UPnP branch can use: {"k":"v",...} with string
\* members and no escapes or white space, as a sequence of <<k, v>>; None stands
\* for a thrown SyntaxError. Exact on the texts of DetailsTexts.
JSONparse(s) ==
    IF Len(s) < 7 \/ SubSeq(s, 1, 2) # "{\"" \/ SubSeq(s, Len(s) - 1, Len(s)) # "\"}"
    THEN None
    ELSE LET members == split(SubSeq(s, 3, Len(s) - 2), "\",\"")
             pairs == [i \in 1..Len(members) |-> split(members[i], "\":\"")]
         IN IF \A i \in 1..Len(pairs) :
                   /\ Len(pairs[i]) = 2
                   /\ ~includes(pairs[i][1], "\"")
                   /\ ~includes(pairs[i][2], "\"")
            THEN Some(pairs)
            ELSE None

\* object[key] of a parsed object: the last member of that key, "" for undefined.
Member(pairs, key) ==
    LET at == {i \in 1..Len(pairs) : pairs[i][1] = key}
    IN IF at = {} THEN ""
       ELSE pairs[CHOOSE x \in at : \A y \in at : y <= x][2]

\* a || b || c || d over strings.
FirstNonEmpty(strs) ==
    LET at == {i \in 1..Len(strs) : strs[i] # ""}
    IN IF at = {} THEN "" ELSE strs[CHOOSE x \in at : \A y \in at : x <= y]

\* extractHostnameFromMdns: Some(hostname), possibly Some(""), or None for null.
extractHostnameFromMdns(service) ==
    LET details == service.details
        nameParts == split(service.name, "(")
        possibleHostname == trim(nameParts[1])
        hostMatch == match(details, HostLabel)
        fullNameMatch == match(details, FullNameLabel)
        parts == split(trim(fullNameMatch[1]), ".")
        hostnameMatch == match(details, HostnameLabel)
    IN IF details = "" THEN None
       ELSE IF /\ service.name # ""
               /\ ~includes(service.name, "on port")
               /\ possibleHostname # ""
               /\ possibleHostname # toUpperCase(service.service_type)
       THEN Some(possibleHostname)
       ELSE IF hostMatch # None THEN Some(trim(hostMatch[1]))
       ELSE IF fullNameMatch # None /\ parts[1] # "" THEN Some(parts[1])
       ELSE IF hostnameMatch # None THEN Some(trim(hostnameMatch[1]))
       ELSE None

\* extractHostnameFromUpnp
extractHostnameFromUpnp(service) ==
    LET details == service.details
        friendlyNameMatch == match(details, FriendlyNameLabel)
        nameMatch == match(details, NameLabel)
        detailsJson == JSONparse(details)
        jsonHostname ==
            FirstNonEmpty(<<Member(detailsJson[1], "friendlyName"),
                            Member(detailsJson[1], "FriendlyName"),
                            Member(detailsJson[1], "name"),
                            Member(detailsJson[1], "Name")>>)
    IN IF details = "" THEN None
       ELSE IF friendlyNameMatch # None THEN Some(trim(friendlyNameMatch[1]))
       ELSE IF nameMatch # None THEN Some(trim(nameMatch[1]))
       ELSE IF /\ includes(details, "{") /\ includes(details, "}")
               /\ detailsJson # None
               /\ jsonHostname # ""
       THEN Some(jsonHostname)
       ELSE None

\* The result of one branch of extractHostnameGeneric's else-if chain.
MatchTrimmed(details, label) ==
    LET m == match(details, label) IN IF m # None THEN Some(trim(m[1])) ELSE None

\* extractHostnameGeneric. The 'computer name:' and 'device name:' branches come
\* after the 'name:' branch in the chain and both texts contain 'name:', so
\* they are never taken.
extractHostnameGeneric(service) ==
    LET details == service.details
        nameParts == split(service.name, "(")
        possibleHostname == trim(nameParts[1])
        lowercaseDetails == toLowerCase(details)
    IN IF details = "" THEN None
       ELSE IF /\ service.name # ""
               /\ ~includes(service.name, "on port")
               /\ Len(nameParts) > 1
               /\ possibleHostname # ""
               /\ possibleHostname # toUpperCase(service.service_type)
       THEN Some(possibleHostname)
       ELSE IF includes(lowercaseDetails, "hostname:")
       THEN MatchTrimmed(details, HostnameLabel)
       ELSE IF includes(lowercaseDetails, "host:")
       THEN MatchTrimmed(details, HostLabel)
       ELSE IF includes(lowercaseDetails, "name:")
       THEN MatchTrimmed(details, NameIgnoreCaseLabel)
       ELSE IF includes(lowercaseDetails, "server:")
       THEN MatchTrimmed(details, ServerLabel)
       ELSE None

\* ---- the effect of useHostnameMapping and the hosts memo of NetworkHostGroup
\* map[ip] of a Record<string, string>; "" stands for undefined (both are falsy
\* and the code stores no empty hostname).
Lookup(map, ip) == IF ip \in DOMAIN map THEN map[ip] ELSE ""

\* newMap[ip] = hostname
SetEntry(map, ip, hostname) ==
    [key \in DOMAIN map \cup {ip} |-> IF key = ip THEN hostname ELSE map[key]]

MulticastTag == "[Multicast]"

RECURSIVE TagMulticast(_, _)
\* services.forEach, the multicast branch: newMap after the loop.
TagMulticast(newMap, services) ==
    IF services = <<>> THEN newMap
    ELSE LET address == Head(services).address
         IN TagMulticast(
                IF isMulticastIP(address) /\ Lookup(newMap, address) = ""
                THEN SetEntry(newMap, address, MulticastTag)
                ELSE newMap,
                Tail(services))

\* services.forEach, the other branch: servicesByIp as the sequence of its entries
\* [ip, services], in insertion order.
ServicesByIp(services) ==
    LET plain == SelectSeq(services, LAMBDA x : ~isMulticastIP(x.address))
        firstAt == {i \in 1..Len(plain) :
                      \A j \in 1..(i - 1) : plain[j].address # plain[i].address}
    IN [k \in 1..Cardinality(firstAt) |->
          LET i == CHOOSE x \in firstAt : Cardinality({y \in firstAt : y <= x}) = k
          IN [ip |-> plain[i].address,
              services |-> SelectSeq(plain, LAMBDA x : x.address = plain[i].address)]]

\* for (const service of list) { hostname = extract(service); if (hostname) ... break }
\* Over the results of the extraction, in the order of the services: the first
\* truthy hostname, "" when no service gives one.
FirstHostname(results) ==
    LET at == {i \in 1..Len(results) : results[i] # None /\ results[i][1] # ""}
    IN IF at = {} THEN ""
       ELSE results[CHOOSE x \in at : \A y \in at : x <= y][1]

\* The body of the loop over servicesByIp for an IP without an entry: mDNS
\* services first, then UPnP services, then any service.
HostnameOfIp(ipServices) ==
    LET mdnsServices ==
            SelectSeq(ipServices, LAMBDA x :
                x.discovery_method # "" /\ toLowerCase(x.discovery_method) = "mdns")
        upnpServices ==
            SelectSeq(ipServices, LAMBDA x :
                x.discovery_method # "" /\ toLowerCase(x.discovery_method) = "upnp")
        fromMdns == FirstHostname([i \in 1..Len(mdnsServices) |->
                                      extractHostnameFromMdns(mdnsServices[i])])
        fromUpnp == FirstHostname([i \in 1..Len(upnpServices) |->
                                      extractHostnameFromUpnp(upnpServices[i])])
    IN IF fromMdns # "" THEN fromMdns
       ELSE IF fromUpnp # "" THEN fromUpnp
       ELSE FirstHostname([i \in 1..Len(ipServices) |->
                              extractHostnameGeneric(ipServices[i])])

RECURSIVE ResolveHostnames(_, _)
\* for (const [ip, ipServices] of servicesByIp.entries()): newMap after the loop.
ResolveHostnames(newMap, entries) ==
    IF entries = <<>> THEN newMap
    ELSE LET ip == Head(entries).ip
             hostname == HostnameOfIp(Head(entries).services)
         IN ResolveHostnames(
                IF Lookup(newMap, ip) # "" THEN newMap
                ELSE IF hostname # "" THEN SetEntry(newMap, ip, hostname)
                ELSE newMap,
                Tail(entries))

\* The effect leaving its loop over servicesByIp at the first IP it names.
HostnameEffectMapOneIp(map, services) ==
    LET tagged == TagMulticast(map, services)
        open == SelectSeq(ServicesByIp(services), LAMBDA entry :
                    Lookup(tagged, entry.ip) = "" /\ HostnameOfIp(entry.services) # "")
    IN ResolveHostnames(tagged, IF open = <<>> THEN <<>> ELSE <<Head(open)>>)

\* The effect's newMap; it differs from the old map exactly when hasChanges is set.
HostnameEffectMap(map, services) ==
    ResolveHostnames(TagMulticast(map, services), ServicesByIp(services))

\* ServiceGrouping with groupBy="discovery_method" (MainContent, no filter set): the
\* services of the group shown by NetworkHostGroup, the first group whose key is
\* 'network scan' in any letter case.
NetworkScanGroup(services) ==
    LET groupKey(x) ==
            IF toLowerCase(x.discovery_method) = "upnp" THEN "UPnP"
            ELSE IF x.discovery_method # "" THEN x.discovery_method ELSE "Unknown"
        at == {i \in 1..Len(services) : toLowerCase(groupKey(services[i])) = "network scan"}
    IN IF at = {} THEN <<>>
       ELSE LET networkScanKey == groupKey(services[CHOOSE x \in at : \A y \in at : x <= y])
            IN SelectSeq(services, LAMBDA x : groupKey(x) = networkScanKey)

RECURSIVE hostsMemo(_, _, _)
\* NetworkHostGroup's hosts: services.forEach over hostsMap, then its values.
hostsMemo(hostsMap, services, map) ==
    IF services = <<>> THEN hostsMap
    ELSE LET service == Head(services)
             at == {i \in 1..Len(hostsMap) : hostsMap[i].ip = service.address}
             added ==
                IF at # {}
                THEN [hostsMap EXCEPT ![CHOOSE i \in at : TRUE].services = Append(@, service)]
                ELSE IF isMulticastIPHostGroup(service.address)
                THEN Append(hostsMap, [ip |-> service.address,
                                       hostname |-> Some(MulticastTag),
                                       services |-> <<service>>])
                ELSE Append(hostsMap, [ip |-> service.address,
                                       hostname |-> IF service.address \in DOMAIN map
                                                    THEN Some(map[service.address])
                                                    ELSE None,
                                       services |-> <<service>>])
         IN hostsMemo(added, Tail(services), map)

\* The addresses services are reported at: a first part, then two to four more
\* dot-separated parts. "239::1.1.2.3" is an IPv6 address written with its last
\* 32 bits in dotted form.
FirstParts == {"239", "192", "23", "239::1"}
MoreParts == {".1.2", ".1.2.3", ".1.2.3.4"}
HostAddresses == {first \o more : first \in FirstParts, more \in MoreParts}

\* At each address, a port found by the network scan and an mDNS service.
HostServices ==
    {[name |-> "http on port 80", address |-> a, port |-> 80, service_type |-> "http",
      discovery_method |-> "Network Scan", details |-> "Hostname: nas\nOS: linux",
      is_secure |-> FALSE, response_time |-> 5] : a \in HostAddresses}
    \cup
    {[name |-> "tv (airplay)", address |-> a, port |-> 7000,
      service_type |-> "_airplay._tcp", discovery_method |-> "mdns",
      details |-> "Host: tv.local", is_secure |-> FALSE, response_time |-> 5] :
        a \in HostAddresses}

\* A service-discovered event with one of these services is handled.
HostServiceDiscovered ==
    \E service \in HostServices :
        /\ Len(handled) < MaxHostServices
        /\ onServiceDiscovered("service-discovered", service, "granted")
        /\ UNCHANGED <<hookVars, timerVars, backendVars, eventVars, histVars, hostVars, listenerVars, retryVars, buttonVars, groupingVars, callbackVars, loggerVars>>

\* The effect of useHostnameMapping, run inside a mounted NetworkHostGroup.
HostnameMappingEffect ==
    /\ NetworkScanGroup(state.services) # <<>>
    /\ ipToHostnameMap' = HostnameEffectMap(ipToHostnameMap, state.services)
    /\ UNCHANGED <<state, hookVars, timerVars, backendVars, eventVars, notifyVars,
                   histVars, hosts, listenerVars, retryVars, buttonVars, groupingVars, callbackVars, loggerVars>>

\* NetworkHostGroup renders: the hosts memo is computed.
HostGroupRender ==
    /\ NetworkScanGroup(state.services) # <<>>
    /\ hosts' = hostsMemo(<<>>, NetworkScanGroup(state.services), ipToHostnameMap)
    /\ UNCHANGED <<state, hookVars, timerVars, backendVars, eventVars, notifyVars,
                   histVars, ipToHostnameMap, listenerVars, retryVars, buttonVars, groupingVars, callbackVars, loggerVars>>

NextMulticast ==
    \/ HostServiceDiscovered
    \/ HostnameMappingEffect
    \/ HostGroupRender

SpecMulticast == InitCommon /\ [][NextMulticast]_vars

\* A text is a decimal numeral: digits only, at least one.
IsDecimalNumeral(str) ==
    str # "" /\ \A k \in 1..Len(str) : DigitValue(CharAt(str, k)) >= 0

\* Four dot-separated parts, the first of them the number 239.
FourPartsFirst239(ip) ==
    LET parts == split(ip, ".")
    IN Len(parts) = 4 /\ IsDecimalNumeral(parts[1]) /\ DigitPrefixValue(parts[1], 0) = 239

\* C10: an address carries the '[Multicast]' tag, in ipToHostnameMap and in the
\* hosts of NetworkHostGroup, exactly when it has four dot-separated parts whose
\* first part is the number 239; the host of such an address is unique and holds
\* every service of the group at that address. (No hostname extracted from the
\* services used here equals the tag, so a tag comes from the multicast check.)
C10_MulticastTagExact ==
    /\ \A ip \in DOMAIN ipToHostnameMap :
          (ipToHostnameMap[ip] = MulticastTag) <=> FourPartsFirst239(ip)
    /\ \A i \in DOMAIN hosts :
          /\ (hosts[i].hostname = Some(MulticastTag)) <=> FourPartsFirst239(hosts[i].ip)
          /\ \A j \in DOMAIN hosts : hosts[j].ip = hosts[i].ip => j = i
    /\ hosts = hostsMemo(<<>>, NetworkScanGroup(state.services), ipToHostnameMap) =>
          \A k \in DOMAIN state.services :
              (/\ FourPartsFirst239(state.services[k].address)
               /\ toLowerCase(state.services[k].discovery_method) = "network scan")
              => \E i \in DOMAIN hosts :
                    /\ hosts[i].ip = state.services[k].address
                    /\ hosts[i].hostname = Some(MulticastTag)
                    /\ \E n \in DOMAIN hosts[i].services :
                          hosts[i].services[n] = state.services[k]

\* --------------------------------------------------------------------
\* The listeners: setupScanListeners / cleanupListeners of BackendService
\* and the effect of useBackendService that calls them.
\* --------------------------------------------------------------------
\* Runs of the listener effect (mounts of the hook).
MaxSetups == 2

\* The listen() calls of setupScanListeners, in the order it awaits them.
ListenOrder ==
    <<"service-discovered", "serviceDiscovered", "service_discovered",
      "scan-progress", "scan-complete", "scan-error">>

\* cleanupListeners(): every stored unlisten function is called, the list is emptied.
cleanupListeners(cleanupFunctions, active) ==
    [listening |-> active \ {cleanupFunctions[i] : i \in DOMAIN cleanupFunctions},
     listenerCleanupFunctions |-> <<>>]

\* The effect's body: setupListeners() runs setupScanListeners up to its first
\* await: cleanupListeners(), then listen('service-discovered', ...) is awaited.
ListenerEffect ==
    LET cleaned == cleanupListeners(listenerCleanupFunctions, listening)
    IN /\ ~mounted
       /\ nextSetup <= MaxSetups
       /\ mounted' = TRUE
       /\ setups' = setups \cup {[call |-> nextSetup, pc |-> 1]}
       /\ nextSetup' = nextSetup + 1
       /\ listening' = cleaned.listening
       /\ listenerCleanupFunctions' = cleaned.listenerCleanupFunctions
       /\ UNCHANGED <<state, hookVars, timerVars, backendVars, eventVars, notifyVars,
                      histVars, hostVars, retryVars, buttonVars, groupingVars, callbackVars, loggerVars>>

\* The effect's cleanup (unmount): backendService.cleanupListeners().
ListenerEffectCleanup ==
    LET cleaned == cleanupListeners(listenerCleanupFunctions, listening)
    IN /\ mounted
       /\ mounted' = FALSE
       /\ listening' = cleaned.listening
       /\ listenerCleanupFunctions' = cleaned.listenerCleanupFunctions
       /\ UNCHANGED <<state, hookVars, timerVars, backendVars, eventVars, notifyVars,
                      histVars, hostVars, retryVars, setups, nextSetup, buttonVars, groupingVars, callbackVars, loggerVars>>

\* A setup call after its pc-th listen(): the next one is awaited, or the call ends.
SetupContinues(c, pc) ==
    IF pc > Len(ListenOrder) THEN setups \ {c}
    ELSE (setups \ {c}) \cup {[call |-> c.call, pc |-> pc]}

\* The awaited listen() resolves: the handler is registered, its unlisten function
\* is pushed onto listenerCleanupFunctions, and the call goes on.
ListenResolved ==
    \E c \in setups :
        LET unlisten == [call |-> c.call, name |-> ListenOrder[c.pc]]
        IN /\ listening' = listening \cup {unlisten}
           /\ listenerCleanupFunctions' = Append(listenerCleanupFunctions, unlisten)
           /\ setups' = SetupContinues(c, c.pc + 1)
           /\ UNCHANGED <<state, hookVars, timerVars, backendVars, eventVars, notifyVars,
                          histVars, hostVars, retryVars, mounted, nextSetup, buttonVars, groupingVars, callbackVars, loggerVars>>

\* The awaited listen() rejects: inside the try block of the three service
\* listeners the catch logs and the call goes on with 'scan-progress'; elsewhere
\* setupScanListeners rejects and the call ends.
ListenRejected ==
    \E c \in setups :
        /\ setups' = IF c.pc <= 3 THEN SetupContinues(c, 4)
                     ELSE SetupContinues(c, Len(ListenOrder) + 1)
        /\ UNCHANGED <<state, hookVars, timerVars, backendVars, eventVars, notifyVars,
                       histVars, hostVars, retryVars, mounted, nextSetup, listening,
                       listenerCleanupFunctions, buttonVars, groupingVars, callbackVars, loggerVars>>

\* Before the first run of the effect.
InitListeners ==
    /\ state = initialState
    /\ scanProgress = 0 /\ error = None /\ scanStartTime = 0 /\ scanTimeoutRef = 0
    /\ rendered = [isScanning |-> FALSE, scanStartTime |-> 0]
    /\ timers = {} /\ nextTimerId = 1 /\ nextDate = 1
    /\ startCalls = 0 /\ stopCalls = 0 /\ backendRunning = FALSE /\ initPc = "done"
    /\ registered = {} /\ inflight = {} /\ nextEventId = 1
    /\ handled = <<>> /\ sent = <<>> /\ permission = "granted" /\ pluginWorks = TRUE
    /\ startOverlap = FALSE /\ consecStops = 0 /\ stopSnap = <<>>
    /\ ipToHostnameMap = EmptyMap /\ hosts = <<>>
    /\ mounted = FALSE /\ setups = {} /\ nextSetup = 1
    /\ listening = {} /\ listenerCleanupFunctions = <<>>
    /\ retryInterval = [active |-> FALSE, remaining |-> 0]
    /\ fetchCalls = 0 /\ renderedInfo = [info |-> None, current |-> TRUE]
    /\ ComponentsInit

NextListeners ==
    \/ ListenerEffect
    \/ ListenerEffectCleanup
    \/ ListenResolved
    \/ ListenRejected

SpecListeners == InitListeners /\ [][NextListeners]_vars

\* C11: once no setupScanListeners call is in progress, the registered handlers
\* are only those of the latest setup call, and only if no cleanupListeners
\* followed it: at most one handler per event name, none after a final cleanup.
C11_OnlyLatestListeners ==
    setups = {} =>
        /\ \A l \in listening : mounted /\ l.call = nextSetup - 1
        /\ \A l1, l2 \in listening : l1.name = l2.name => l1 = l2

\* --------------------------------------------------------------------
\* The retry effect of useBackendService: while the public network info is
\* missing or says offline, fetchPublicNetworkInfo every 10 seconds.
\* --------------------------------------------------------------------
\* Retry fetches under way at one time.
MaxFetchCalls == 2
\* The step of the clock of the retry interval, in ms.
RetryTickMs == 10000

RETRY_INTERVAL == 10000

\* The condition of the retry effect.
NeedsRetry(publicNetworkInfo) ==
    publicNetworkInfo = None \/ ~publicNetworkInfo[1].internet_available

\* The effect has run for the stored info: no SET_PUBLIC_INFO stored another object
\* since (an object of equal content is another object).
EffectCurrent == renderedInfo.current /\ renderedInfo.info = state.publicNetworkInfo

\* What get_public_network_info answers to a retry: an address, no address, an error.
RetryOutcomes ==
    FetchOutcomes \cup
    {[kind |-> "resolved", ip |-> None, internet_available |-> "undefined"],
     [kind |-> "rejected", message |-> Some("timeout")]}

\* A render after state.publicNetworkInfo changed: the effect's cleanup clears
\* the interval, its body sets a new one when the info is missing or offline.
RetryEffect ==
    /\ ~EffectCurrent
    /\ renderedInfo' = [info |-> state.publicNetworkInfo, current |-> TRUE]
    /\ retryInterval' = IF NeedsRetry(state.publicNetworkInfo)
                        THEN [active |-> TRUE, remaining |-> RETRY_INTERVAL]
                        ELSE [active |-> FALSE, remaining |-> 0]
    /\ UNCHANGED <<state, hookVars, timerVars, backendVars, eventVars, notifyVars,
                   histVars, hostVars, listenerVars, fetchCalls, buttonVars, groupingVars, callbackVars, loggerVars>>

\* Time passes for the interval.
RetryTick ==
    /\ retryInterval.active
    /\ retryInterval.remaining > 0
    /\ retryInterval' = [retryInterval EXCEPT !.remaining =
                            IF @ > RetryTickMs THEN @ - RetryTickMs ELSE 0]
    /\ UNCHANGED <<state, hookVars, timerVars, backendVars, eventVars, notifyVars,
                   histVars, hostVars, listenerVars, fetchCalls, renderedInfo, buttonVars, groupingVars, callbackVars, loggerVars>>

\* The interval fires: fetchPublicNetworkInfo() is called and awaits the backend;
\* the interval runs on.
RetryFire ==
    /\ retryInterval.active
    /\ retryInterval.remaining = 0
    /\ fetchCalls < MaxFetchCalls
    /\ fetchCalls' = fetchCalls + 1
    /\ retryInterval' = [retryInterval EXCEPT !.remaining = RETRY_INTERVAL]
    /\ UNCHANGED <<state, hookVars, timerVars, backendVars, eventVars, notifyVars,
                   histVars, hostVars, listenerVars, renderedInfo, buttonVars, groupingVars, callbackVars, loggerVars>>

\* A retry's getPublicNetworkInfo settles: fetchPublicNetworkInfo stores the info,
\* or on a rejection the fallback info and the error. The stored object is new.
RetryFetchSettled ==
    \E outcome \in RetryOutcomes :
        LET r == fetchPublicNetworkInfo(outcome) IN
        /\ fetchCalls > 0
        /\ fetchCalls' = fetchCalls - 1
        /\ state' = appReducer(state, [type |-> "SET_PUBLIC_INFO", info |-> r.info])
        /\ error' = r.error
        /\ renderedInfo' = [renderedInfo EXCEPT !.current = FALSE]
        /\ UNCHANGED <<scanProgress, scanStartTime, scanTimeoutRef, rendered, timerVars,
                       backendVars, eventVars, notifyVars, histVars, hostVars,
                       listenerVars, retryInterval, buttonVars, groupingVars, callbackVars, loggerVars>>

\* After mount: initializeApp awaits its fetchPublicNetworkInfo, and the retry
\* effect, run with publicNetworkInfo null, has set the interval.
InitRetry ==
    /\ state = initialState
    /\ scanProgress = 0 /\ error = None /\ scanStartTime = 0 /\ scanTimeoutRef = 0
    /\ rendered = [isScanning |-> FALSE, scanStartTime |-> 0]
    /\ timers = {} /\ nextTimerId = 1 /\ nextDate = 1
    /\ startCalls = 0 /\ stopCalls = 0 /\ backendRunning = FALSE /\ initPc = "fetch"
    /\ registered = AllEventNames /\ inflight = {} /\ nextEventId = 1
    /\ handled = <<>> /\ sent = <<>> /\ permission = "granted" /\ pluginWorks = TRUE
    /\ startOverlap = FALSE /\ consecStops = 0 /\ stopSnap = <<>>
    /\ ipToHostnameMap = EmptyMap /\ hosts = <<>>
    /\ mounted = TRUE /\ setups = {} /\ nextSetup = 1
    /\ listening = {} /\ listenerCleanupFunctions = <<>>
    /\ retryInterval = [active |-> TRUE, remaining |-> RETRY_INTERVAL]
    /\ fetchCalls = 0
    /\ renderedInfo = [info |-> None, current |-> TRUE]
    /\ ComponentsInit

NextRetry ==
    \/ RetryTick
    \/ RetryFire
    \/ InitializeAppResume
    \/ RetryEffect
    \/ RetryFetchSettled

SpecRetry == InitRetry /\ [][NextRetry]_vars

\* C12 (a): once the effect has run for the stored info, the interval is active
\* exactly when the info is missing or has internet_available false.
C12_TimerWhenFailed ==
    EffectCurrent => (retryInterval.active <=> NeedsRetry(state.publicNetworkInfo))

\* C12: (a) always; and once info with internet_available true is stored (and the
\* effect has run for it) no retry fetch is issued, and a stored info with
\* internet_available true is not replaced by one with internet_available false.
C12_RetryWhileFailed ==
    /\ []C12_TimerWhenFailed
    /\ [][/\ (RetryFire /\ EffectCurrent) => NeedsRetry(state.publicNetworkInfo)
          /\ ~NeedsRetry(state.publicNetworkInfo)
              => ~NeedsRetry(state'.publicNetworkInfo)]_vars

\* --------------------------------------------------------------------
\* showSystemNotification on its own, every plugin call able to throw
\* (notificationService.ts).
\* --------------------------------------------------------------------
\* Calls of showSystemNotification in one run.
MaxNotifyCalls == 2

\* showSystemNotification without its try/catch: a throwing plugin call makes
\* the promise reject.
showSystemNotificationNoCatch(options, perm, plugin, sentSoFar) ==
    LET checkThrows == plugin.isPermissionGranted = "throws"
        requested == ~checkThrows /\ perm # "granted"
        requestThrows == requested /\ plugin.requestPermission = "throws"
        permissionGranted == IF requested THEN plugin.requestPermission = "granted"
                             ELSE perm = "granted"
        sendCalled == ~checkThrows /\ ~requestThrows /\ permissionGranted
        sendThrows == sendCalled /\ plugin.sendNotification = "throws"
    IN [settled |-> IF checkThrows \/ requestThrows \/ sendThrows THEN "rejected"
                    ELSE "resolved",
        value |-> sendCalled /\ ~sendThrows,
        requested |-> requested,
        permission |-> IF requested /\ ~requestThrows THEN plugin.requestPermission
                       ELSE perm,
        sent |-> IF sendCalled /\ ~sendThrows
                 THEN Append(sentSoFar,
                         [title |-> IF options.title = None THEN "Radar"
                                    ELSE options.title[1],
                          body |-> options.body])
                 ELSE sentSoFar]

\* showSystemNotification({title = 'Radar', body, icon}) with the notification
\* permission `perm` and a plugin whose three calls answer as `plugin` says:
\* isPermissionGranted "answers" (perm = 'granted') or "throws", requestPermission
\* a permission or "throws", sendNotification "ok" or "throws". The result:
\* how the promise settles and with which value, whether permission was
\* requested, the permission and the notifications sent afterwards.
showSystemNotificationTry(options, perm, plugin, sentSoFar) ==
    LET title == IF options.title = None THEN "Radar" ELSE options.title[1]
        checkThrows == plugin.isPermissionGranted = "throws"
        requested == ~checkThrows /\ perm # "granted"
        requestThrows == requested /\ plugin.requestPermission = "throws"
        permissionGranted == IF requested THEN plugin.requestPermission = "granted"
                             ELSE perm = "granted"
        sendCalled == ~checkThrows /\ ~requestThrows /\ permissionGranted
        sendThrows == sendCalled /\ plugin.sendNotification = "throws"
    IN [settled |-> "resolved",
        value |-> sendCalled /\ ~sendThrows,
        requested |-> requested,
        permission |-> IF requested /\ ~requestThrows THEN plugin.requestPermission
                       ELSE perm,
        sent |-> IF sendCalled /\ ~sendThrows
                 THEN Append(sentSoFar, [title |-> title, body |-> options.body])
                 ELSE sentSoFar]

\* The ways the plugin's calls can answer.
PluginAnswers ==
    [isPermissionGranted : {"answers", "throws"},
     requestPermission : {"granted", "denied", "default", "throws"},
     sendNotification : {"ok", "throws"}]

NotificationOptionsSet ==
    {[title |-> None, body |-> "scan finished"],
     [title |-> Some("New Network Service Discovered"), body |-> "tv (http) at 10.0.0.5"]}

\* One call of showSystemNotification, logged with what it was given.
ShowSystemNotification ==
    \E options \in NotificationOptionsSet, plugin \in PluginAnswers :
        LET r == showSystemNotificationTry(options, permission, plugin, sent) IN
        /\ Len(handled) < MaxNotifyCalls
        /\ permission' = r.permission
        /\ sent' = r.sent
        /\ handled' = Append(handled,
              [options |-> options, plugin |-> plugin, permissionBefore |-> permission,
               permissionAfter |-> r.permission, settled |-> r.settled,
               value |-> r.value, requested |-> r.requested,
               delivered |-> Len(r.sent) > Len(sent)])
        /\ UNCHANGED <<state, hookVars, timerVars, backendVars, eventVars, pluginWorks,
                       histVars, hostVars, listenerVars, retryVars, buttonVars, groupingVars, callbackVars, loggerVars>>

\* The user changes the notification permission in the system settings.
PermissionChanged ==
    \E p \in {"granted", "denied", "default"} :
        /\ p # permission
        /\ Len(handled) < MaxNotifyCalls
        /\ permission' = p
        /\ UNCHANGED <<state, hookVars, timerVars, backendVars, eventVars, handled, sent,
                       pluginWorks, histVars, hostVars, listenerVars, retryVars, buttonVars, groupingVars, callbackVars, loggerVars>>

InitNotify ==
    /\ state = initialState
    /\ scanProgress = 0 /\ error = None /\ scanStartTime = 0 /\ scanTimeoutRef = 0
    /\ rendered = [isScanning |-> FALSE, scanStartTime |-> 0]
    /\ timers = {} /\ nextTimerId = 1 /\ nextDate = 1
    /\ startCalls = 0 /\ stopCalls = 0 /\ backendRunning = FALSE /\ initPc = "done"
    /\ registered = {} /\ inflight = {} /\ nextEventId = 1
    /\ handled = <<>> /\ sent = <<>> /\ pluginWorks = TRUE
    /\ permission \in {"granted", "denied", "default"}
    /\ startOverlap = FALSE /\ consecStops = 0 /\ stopSnap = <<>>
    /\ ipToHostnameMap = EmptyMap /\ hosts = <<>>
    /\ SideInit

NextNotify ==
    \/ ShowSystemNotification
    \/ PermissionChanged

SpecNotify == InitNotify /\ [][NextNotify]_vars

\* C13: every call of showSystemNotification resolves (never rejects); it resolves
\* to true exactly when permission is granted after the call's permission steps
\* and sendNotification was called and succeeded, to false in every other case,
\* a throwing plugin call included; requestPermission is called only when
\* permission was not granted already.
C13_NotificationResult ==
    \A i \in DOMAIN handled :
        LET c == handled[i]
            threw == \/ c.plugin.isPermissionGranted = "throws"
                     \/ (c.requested /\ c.plugin.requestPermission = "throws")
                     \/ (c.delivered = FALSE /\ c.permissionAfter = "granted"
                           /\ c.plugin.sendNotification = "throws")
        IN /\ c.settled = "resolved"
           /\ c.value <=> (c.permissionAfter = "granted" /\ c.delivered)
           /\ c.delivered <=> (/\ c.permissionAfter = "granted"
                               /\ c.plugin.isPermissionGranted = "answers"
                               /\ c.plugin.sendNotification = "ok")
           /\ threw => ~c.value
           /\ c.requested => c.permissionBefore # "granted"

\* A call that requested permission, was granted it and showed the notification,
\* then a call whose sendNotification threw.
C13_Witness ==
    /\ Len(handled) = 2
    /\ handled[1].requested /\ handled[1].value
    /\ handled[2].plugin.sendNotification = "throws" /\ handled[2].permissionBefore = "granted"
    /\ handled[2].plugin.isPermissionGranted = "answers" /\ ~handled[2].value


\* ---------------------------------------------------------------------
\* The scan-error event
\* ---------------------------------------------------------------------

\* C14: whenever the hook handles a scan-error event, afterwards error is the
\* message the event carried, isScanning is false, scanProgress is 0, and the
\* list of services is the one it was before the event.
C14_ScanErrorHandled ==
    [][DeliverScanError =>
          \E e \in inflight \ inflight' :
              /\ e.name = "scan-error"
              /\ error' = Some(e.payload.error)
              /\ ~state'.isScanning
              /\ scanProgress' = 0
              /\ state'.services = state.services]_vars

\* A scan that had found a service failed: the message is shown, the scan is over.
C14_Witness ==
    /\ error \in {Some(msg) : msg \in ScanErrors}
    /\ ~state.isScanning
    /\ scanProgress = 0
    /\ state.services # <<>>


\* ---------------------------------------------------------------------
\* The scan-complete event
\* ---------------------------------------------------------------------

\* C15: whenever the hook handles a scan-complete event, afterwards isScanning is
\* false, scanProgress is 100 and the list of services is the one it was before;
\* and the safety timer of the completed scan never fires afterwards: no timer
\* issues stop_network_scan while the hook still shows the completed scan
\* (isScanning false, scanProgress 100, as handleComplete left them).
C15_ScanCompleteHandled ==
    /\ [][DeliverScanComplete =>
              /\ ~state'.isScanning
              /\ scanProgress' = 100
              /\ state'.services = state.services]_vars
    /\ [][SafetyTimeout => ~(~state.isScanning /\ scanProgress = 100)]_vars


\* ---------------------------------------------------------------------
\* The hook's isScanning and the backend's scan
\* ---------------------------------------------------------------------

\* No run_network_scan or stop_network_scan awaits its answer, and no event
\* emitted by the backend is still to be handled.
Quiescent == startCalls = 0 /\ stopCalls = 0 /\ inflight = {}

\* C16: in every state with no command response and no scan event in flight,
\* the hook's isScanning is true exactly when the backend runs a scan.
C16_UiAgreesWithBackend == Quiescent => (state.isScanning <=> backendRunning)


\* ---------------------------------------------------------------------
\* The safety timer
\* ---------------------------------------------------------------------

\* At most one safety timer is pending, and once the effect has run for the
\* current state a timer is pending only if isScanning is true and scanStartTime set.
C17_TimerOnlyWhileScanning ==
    /\ Cardinality(timers) <= 1
    /\ (SafetyEffectCurrent /\ timers # {}) => (state.isScanning /\ scanStartTime # 0)

\* C17: at most one safety timer is pending at any time; one is pending only while
\* isScanning is true and scanStartTime is set; and a timer never invokes
\* stop_network_scan once isScanning has become false.
C17_SafetyTimer ==
    /\ []C17_TimerOnlyWhileScanning
    /\ [][SafetyTimeout => state.isScanning]_vars


\* ---------------------------------------------------------------------
\* A rejected run_network_scan
\* ---------------------------------------------------------------------

\* C18: whenever run_network_scan is rejected, startNetworkScan's call ends in its
\* catch branch: afterwards isScanning is false, error is the rejection's message
\* (the message of an Error, String(err) of anything else), and the list of
\* services is the one it was before.
C18_StartRejectionHandled ==
    [][\A err \in StartErrors :
          StartRejectedWith(err) =>
              /\ startCalls' = startCalls - 1
              /\ ~state'.isScanning
              /\ error' = Some(IF err.type = "Error" THEN err.value ELSE String(err))
              /\ state'.services = state.services]_vars

\* A second scan was refused after the first one had found a service.
C18_Witness ==
    /\ error \in {Some(err.value) : err \in StartErrors}
    /\ ~state.isScanning
    /\ state.services # <<>>


\* ---------------------------------------------------------------------
\* Arrival order: the reducer driven with ADD_SERVICE only, every dispatched
\* service logged in handled.
\* ---------------------------------------------------------------------
MaxAdds == 3

\* dispatch({ type: 'ADD_SERVICE', service })
DispatchAddServiceLogged(service) ==
    /\ Len(handled) < MaxAdds
    /\ state' = appReducer(state, [type |-> "ADD_SERVICE", service |-> service])
    /\ handled' = Append(handled, service)
    /\ UNCHANGED <<hookVars, timerVars, backendVars, eventVars, sent, permission,
                   pluginWorks, histVars, hostVars, listenerVars, retryVars, buttonVars, groupingVars, callbackVars, loggerVars>>

NextArrival == \E service \in ReducerServices : DispatchAddServiceLogged(service)

SpecArrival == InitCommon /\ [][NextArrival]_vars

\* The services of a sequence whose (name, address, port) no earlier one has.
FirstOccurrences(seq) ==
    LET New(i) == \A j \in 1..(i - 1) : Triple(seq[j]) # Triple(seq[i])
        F[i \in 0..Len(seq)] ==
            IF i = 0 THEN <<>>
            ELSE IF New(i) THEN Append(F[i - 1], seq[i]) ELSE F[i - 1]
    IN F[Len(seq)]

\* C19: after any sequence of ADD_SERVICE actions state.services holds the first
\* occurrence of each distinct (name, address, port), in the order of dispatch;
\* an ADD_SERVICE leaves every existing entry as and where it was, and one for a
\* triple already listed returns the state unchanged.
C19_ArrivalOrder ==
    /\ [](state.services = FirstOccurrences(handled))
    /\ [][\A service \in ReducerServices :
              DispatchAddServiceLogged(service) =>
                  /\ Len(state'.services) >= Len(state.services)
                  /\ SubSeq(state'.services, 1, Len(state.services)) = state.services
                  /\ (\E i \in 1..Len(state.services) :
                          Triple(state.services[i]) = Triple(service)) => state' = state]_vars

\* Two services are listed and a further ADD_SERVICE for a listed triple came.
C19_Witness ==
    /\ Len(state.services) >= 2
    /\ Len(handled) > Len(state.services)
    /\ Triple(handled[Len(handled)]) \in {Triple(state.services[i]) : i \in 1..Len(state.services)}
    /\ handled[Len(handled)] \notin {state.services[i] : i \in 1..Len(state.services)}


\* ---------------------------------------------------------------------
\* Adding, then removing a service
\* ---------------------------------------------------------------------

\* C20: in every state, for every service whose (name, address, port) is not in
\* state.services, ADD_SERVICE of it followed by REMOVE_SERVICE with its
\* name:address:port as serviceId yields the list of services there was before.
C20_AddRemoveRoundTrip ==
    \A s \in ReducerServices :
        (\A i \in 1..Len(state.services) : Triple(state.services[i]) # Triple(s))
            => appReducer(appReducer(state, [type |-> "ADD_SERVICE", service |-> s]),
                          [type |-> "REMOVE_SERVICE", serviceId |-> getServiceKey(s)]).services
                   = state.services


\* ---------------------------------------------------------------------
\* The self-timed ScanButton (5 s timeout)
\* ---------------------------------------------------------------------
MaxToggles == 8
SCAN_BUTTON_TIMEOUT == 5000
ButtonTickMs == 2500

\* setScanningState(scanning): setIsScanning, onScanToggle(scanning) and the
\* radar-scan-status-change event with detail.scanning.
setScanningState(scanning) ==
    /\ buttonIsScanning' = scanning
    /\ toggles' = Append(toggles, scanning)

\* The finally block of handleScan: a new 5 s timer, its id stored in timeoutRef;
\* the timer the ref held before is not cleared here.
SetButtonTimeout ==
    /\ buttonTimers' = buttonTimers \cup
            {[id |-> nextButtonTimer, remaining |-> SCAN_BUTTON_TIMEOUT]}
    /\ timeoutRef' = nextButtonTimer
    /\ nextButtonTimer' = nextButtonTimer + 1

\* A click on the button, enabled while the last render saw isScanning false:
\* handleScan up to its await. The timer of the ref is cleared; with isScanning
\* false the scan state is set and startNetworkScan() called. The state update of
\* a click is rendered before the browser handles the next event.
ButtonClick ==
    /\ ~buttonRendered
    /\ Len(toggles) < MaxToggles
    /\ buttonTimers' = {t \in buttonTimers : timeoutRef = 0 \/ t.id # timeoutRef}
    /\ timeoutRef' = 0
    /\ IF buttonRendered
       THEN /\ setScanningState(FALSE)
            /\ buttonRendered' = FALSE
            /\ UNCHANGED buttonCalls
       ELSE /\ setScanningState(TRUE)
            /\ buttonRendered' = TRUE
            /\ buttonCalls' = buttonCalls + 1
    /\ UNCHANGED <<state, hookVars, timerVars, backendVars, eventVars, notifyVars,
                   histVars, hostVars, listenerVars, retryVars, nextButtonTimer, groupingVars, callbackVars, loggerVars>>

\* startNetworkScan() resolves: handleScan goes on to its finally block.
ButtonStartResolved ==
    /\ buttonCalls > 0
    /\ buttonCalls' = buttonCalls - 1
    /\ backendRunning' = TRUE
    /\ SetButtonTimeout
    /\ UNCHANGED <<state, hookVars, timerVars, startCalls, stopCalls, initPc, eventVars,
                   notifyVars, histVars, hostVars, listenerVars, retryVars,
                   buttonIsScanning, buttonRendered, toggles, groupingVars, callbackVars, loggerVars>>

\* startNetworkScan() rejects: catch { setScanningState(false) }, then finally.
ButtonStartRejected ==
    /\ buttonCalls > 0
    /\ buttonCalls' = buttonCalls - 1
    /\ setScanningState(FALSE)
    /\ SetButtonTimeout
    /\ UNCHANGED <<state, hookVars, timerVars, backendVars, eventVars, notifyVars,
                   histVars, hostVars, listenerVars, retryVars, buttonRendered, groupingVars, callbackVars, loggerVars>>

\* The button renders with the isScanning set outside a click.
ButtonRender ==
    /\ buttonRendered # buttonIsScanning
    /\ buttonRendered' = buttonIsScanning
    /\ UNCHANGED <<state, hookVars, timerVars, backendVars, eventVars, notifyVars,
                   histVars, hostVars, listenerVars, retryVars, buttonIsScanning,
                   timeoutRef, buttonTimers, nextButtonTimer, buttonCalls, toggles, groupingVars, callbackVars, loggerVars>>

\* Time passes with no render pending: the pending timers come due.
ButtonTick ==
    /\ buttonRendered = buttonIsScanning
    /\ \E t \in buttonTimers : t.remaining > 0
    /\ buttonTimers' =
          {[id |-> t.id,
            remaining |-> IF t.remaining > ButtonTickMs THEN t.remaining - ButtonTickMs ELSE 0] :
               t \in buttonTimers}
    /\ UNCHANGED <<state, hookVars, timerVars, backendVars, eventVars, notifyVars,
                   histVars, hostVars, listenerVars, retryVars, buttonIsScanning,
                   buttonRendered, timeoutRef, nextButtonTimer, buttonCalls, toggles, groupingVars, callbackVars, loggerVars>>

\* A 5 s timer fires: setScanningState(false); timeoutRef.current = null.
ButtonTimeout ==
    \E t \in buttonTimers :
        /\ t.remaining = 0
        /\ Len(toggles) < MaxToggles
        /\ buttonTimers' = buttonTimers \ {t}
        /\ setScanningState(FALSE)
        /\ timeoutRef' = 0
        /\ UNCHANGED <<state, hookVars, timerVars, backendVars, eventVars, notifyVars,
                       histVars, hostVars, listenerVars, retryVars, buttonRendered,
                       nextButtonTimer, buttonCalls, groupingVars, callbackVars, loggerVars>>

NextScanButton ==
    \/ ButtonClick
    \/ ButtonStartResolved
    \/ ButtonStartRejected
    \/ ButtonRender
    \/ ButtonTick
    \/ ButtonTimeout

SpecScanButton == InitCommon /\ [][NextScanButton]_vars

\* C21: every scan-start notification of the ScanButton is followed by exactly
\* one scan-end notification before the next start: the notified values begin
\* with a start and alternate between start and end, whether startNetworkScan
\* succeeded or failed; and at most one 5 s timer is pending at any time.
C21_StartEndAlternate ==
    /\ toggles # <<>> => toggles[1]
    /\ \A i \in 1..(Len(toggles) - 1) : toggles[i + 1] = ~toggles[i]
    /\ Cardinality(buttonTimers) <= 1


\* ---------------------------------------------------------------------
\* useHostnameMapping over arriving and cleared services
\* ---------------------------------------------------------------------
MaxNamedServices == 3

NamedAddresses == {"10.0.0.5", "10.0.0.6"}

\* At each address: two ports found by the network scan, one of them with a
\* hostname in its details, an mDNS service and a UPnP device.
NamedServices ==
    {[name |-> "http on port 80", address |-> a, port |-> 80, service_type |-> "http",
      discovery_method |-> "Network Scan", details |-> "Hostname: nas",
      is_secure |-> FALSE, response_time |-> 5] : a \in NamedAddresses}
    \cup
    {[name |-> "ssh on port 22", address |-> a, port |-> 22, service_type |-> "ssh",
      discovery_method |-> "Network Scan", details |-> "open",
      is_secure |-> FALSE, response_time |-> 5] : a \in NamedAddresses}
    \cup
    {[name |-> "tv (airplay)", address |-> a, port |-> 7000,
      service_type |-> "_airplay._tcp", discovery_method |-> "mdns",
      details |-> "Host: tv.local", is_secure |-> FALSE, response_time |-> 5] :
        a \in NamedAddresses}
    \cup
    {[name |-> "MediaServer", address |-> a, port |-> 1900,
      service_type |-> "upnp:rootdevice", discovery_method |-> "UPnP",
      details |-> "friendlyName: hifi", is_secure |-> FALSE, response_time |-> 5] :
        a \in NamedAddresses}

\* dispatch({ type: 'ADD_SERVICE', service }) with one of these services.
NamedServiceAdded ==
    \E service \in NamedServices :
        /\ Len(state.services) < MaxNamedServices
        /\ Dispatch([type |-> "ADD_SERVICE", service |-> service])

\* No 'NETWORK SCAN' group is left: ServiceGrouping renders no NetworkHostGroup,
\* the component unmounts and the state of its hooks is gone; a later mount
\* starts from useState({}).
HostGroupUnmount ==
    /\ NetworkScanGroup(state.services) = <<>>
    /\ (DOMAIN ipToHostnameMap # {} \/ hosts # <<>>)
    /\ ipToHostnameMap' = EmptyMap
    /\ hosts' = <<>>
    /\ UNCHANGED <<state, hookVars, timerVars, backendVars, eventVars, notifyVars,
                   histVars, listenerVars, retryVars, buttonVars, groupingVars, callbackVars, loggerVars>>

NextHostnames ==
    \/ NamedServiceAdded
    \/ DispatchClearServices
    \/ HostnameMappingEffect
    \/ HostGroupUnmount

SpecHostnames == InitCommon /\ [][NextHostnames]_vars

\* The NetworkHostGroup is mounted and its effect has run for the current
\* services and map: a further run changes nothing.
HostnameEffectSettled ==
    /\ NetworkScanGroup(state.services) # <<>>
    /\ HostnameEffectMap(ipToHostnameMap, state.services) = ipToHostnameMap

\* The hostname the mDNS services of an IP give: that of the first of them, in
\* the order of the list, from which extractHostnameFromMdns extracts one.
MdnsHostname(ip, services) ==
    LET mdnsServices ==
            SelectSeq(services, LAMBDA x :
                x.address = ip /\ toLowerCase(x.discovery_method) = "mdns")
    IN FirstHostname([i \in 1..Len(mdnsServices) |->
                         extractHostnameFromMdns(mdnsServices[i])])

\* C22: once the effect has run for the services that arrived, in whatever order,
\* every IP with an mDNS service from which a hostname can be extracted is mapped
\* to that mDNS-derived hostname.
C22_MdnsFirst ==
    HostnameEffectSettled =>
        \A k \in DOMAIN state.services :
            LET ip == state.services[k].address
            IN (~isMulticastIP(ip) /\ MdnsHostname(ip, state.services) # "")
                   => Lookup(ipToHostnameMap, ip) = MdnsHostname(ip, state.services)


\* C23: ipToHostnameMap only grows: an IP that has an entry keeps it, with the
\* same hostname, through every later step: services arriving, CLEAR_SERVICES,
\* runs of the effect.
C23_MapOnlyGrows ==
    [][\A ip \in DOMAIN ipToHostnameMap :
          /\ ip \in DOMAIN ipToHostnameMap'
          /\ ipToHostnameMap'[ip] = ipToHostnameMap[ip]]_vars


\* C24: the hostname-mapping effect reaches a fixed point: whenever it runs, for
\* whatever list of services, the map it leaves is one that a further run of the
\* effect for the same list does not change. So a list of services causes at most
\* one setIpToHostnameMap update, and the run that update triggers makes none.
C24_EffectFixedPoint ==
    [][HostnameMappingEffect =>
          HostnameEffectMap(ipToHostnameMap', state.services) = ipToHostnameMap']_vars

\* The effect has named two IPs and a further run changes nothing.
C24_Witness ==
    /\ HostnameEffectSettled
    /\ Cardinality(DOMAIN ipToHostnameMap) >= 2


\* ---------------------------------------------------------------------
\* ServiceGrouping: the groups rendered for a list of services
\* ---------------------------------------------------------------------
MaxGroupedServices == 3

\* isUPnPServiceType(serviceType)
isUPnPServiceType(serviceType) ==
    IF serviceType = "" THEN FALSE
    ELSE LET lowerServiceType == toLowerCase(serviceType)
         IN \/ includes(lowerServiceType, "schemas-upnp-org:device:")
            \/ includes(lowerServiceType, "schemas-wifialliance-org:device:")
            \/ includes(lowerServiceType, "upnp")
            \/ (includes(lowerServiceType, "urn:") /\ includes(lowerServiceType, ":device:"))

\* The key the reduce callback of groupedServices files a service under.
GroupKey(service, by) ==
    LET key == IF by = "service_type"
               THEN IF isUPnPServiceType(service.service_type) THEN "UPnP Services"
                    ELSE IF service.service_type # "" THEN service.service_type
                    ELSE "Unknown"
               ELSE IF by = "discovery_method"
               THEN IF toLowerCase(service.discovery_method) = "upnp" THEN "UPnP"
                    ELSE IF service.discovery_method # "" THEN service.discovery_method
                    ELSE "Unknown"
               ELSE ""
    IN IF by = "service_type" /\ key # "UPnP Services"
       THEN IF includes(key, "_http._tcp") THEN "HTTP Services"
            ELSE IF includes(key, "_https._tcp") THEN "HTTPS Services"
            ELSE IF includes(key, "_ssh._tcp") THEN "SSH Services"
            ELSE IF includes(key, "_device-info._tcp") THEN "Device Info"
            ELSE key
       ELSE key

\* A Record<string, NetworkService[]> is the sequence of its [key, services]
\* entries in insertion order. groups[key].push(service), the group made first
\* when the key is new.
PushToGroup(groups, key, service) ==
    IF \E i \in DOMAIN groups : groups[i].key = key
    THEN [i \in DOMAIN groups |->
            IF groups[i].key = key
            THEN [key |-> key, services |-> Append(groups[i].services, service)]
            ELSE groups[i]]
    ELSE Append(groups, [key |-> key, services |-> <<service>>])

RECURSIVE ReduceGroups(_, _, _)
\* services.reduce((groups, service) => ..., {}) from the groups built so far.
ReduceGroups(groups, services, by) ==
    IF services = <<>> THEN groups
    ELSE ReduceGroups(PushToGroup(groups, GroupKey(Head(services), by), Head(services)),
                      Tail(services), by)

\* groupedServices
groupedServices(services, by) ==
    IF by = "none" THEN <<[key |-> "All Services", services |-> services]>>
    ELSE ReduceGroups(<<>>, services, by)

\* normalizedGroupedServices: the first key that is 'network scan' in any letter
\* case, when it is not 'NETWORK SCAN' itself, is stored under 'NETWORK SCAN'
\* (result['NETWORK SCAN'] = result[networkScanKey]) and deleted.
normalizedGroupedServices(grouped) ==
    LET at == {i \in DOMAIN grouped : toLowerCase(grouped[i].key) = "network scan"}
        first == CHOOSE x \in at : \A y \in at : x <= y
    IN IF at = {} \/ grouped[first].key = "NETWORK SCAN" THEN grouped
       ELSE LET moved == grouped[first].services
                assigned ==
                    IF \E i \in DOMAIN grouped : grouped[i].key = "NETWORK SCAN"
                    THEN [i \in DOMAIN grouped |->
                            IF grouped[i].key = "NETWORK SCAN"
                            THEN [key |-> "NETWORK SCAN", services |-> moved]
                            ELSE grouped[i]]
                    ELSE Append(grouped, [key |-> "NETWORK SCAN", services |-> moved])
            IN SelectSeq(assigned, LAMBDA g : g.key # grouped[first].key)

\* Services found by the network scan under three spellings of its name, by
\* mDNS and UPnP, and one with neither type nor method.
GroupedServiceSet ==
    {[name |-> "http on port 80", address |-> "10.0.0.5", port |-> 80,
      service_type |-> "http", discovery_method |-> "Network Scan", details |-> "",
      is_secure |-> FALSE, response_time |-> 5],
     [name |-> "ssh on port 22", address |-> "10.0.0.5", port |-> 22,
      service_type |-> "_ssh._tcp", discovery_method |-> "NETWORK SCAN", details |-> "",
      is_secure |-> FALSE, response_time |-> 5],
     [name |-> "web", address |-> "10.0.0.6", port |-> 80,
      service_type |-> "_http._tcp", discovery_method |-> "network scan", details |-> "",
      is_secure |-> FALSE, response_time |-> 5],
     [name |-> "tv", address |-> "10.0.0.7", port |-> 7000,
      service_type |-> "_http._tcp.local", discovery_method |-> "mdns", details |-> "",
      is_secure |-> FALSE, response_time |-> 5],
     [name |-> "hifi", address |-> "10.0.0.8", port |-> 1900,
      service_type |-> "upnp:rootdevice", discovery_method |-> "upnp", details |-> "",
      is_secure |-> FALSE, response_time |-> 5],
     [name |-> "thing", address |-> "10.0.0.9", port |-> 9,
      service_type |-> "", discovery_method |-> "", details |-> "",
      is_secure |-> FALSE, response_time |-> 5]}

GroupByValues == {"service_type", "discovery_method", "none"}

\* dispatch({ type: 'ADD_SERVICE', service }) with one of these services.
GroupedServiceAdded ==
    \E service \in GroupedServiceSet :
        /\ Len(state.services) < MaxGroupedServices
        /\ state' = appReducer(state, [type |-> "ADD_SERVICE", service |-> service])
        /\ UNCHANGED <<hookVars, timerVars, backendVars, eventVars, notifyVars,
                       histVars, hostVars, listenerVars, retryVars, buttonVars,
                       groupingVars, callbackVars, loggerVars>>

\* ServiceGrouping renders the list (MainContent renders it for a list that is
\* not empty): the normalized groups, one ServiceGroup or NetworkHostGroup each.
ServiceGroupingRender ==
    /\ state.services # <<>>
    /\ renderedGroups' =
          [services |-> state.services,
           groups |-> normalizedGroupedServices(groupedServices(state.services, groupBy))]
    /\ UNCHANGED <<state, hookVars, timerVars, backendVars, eventVars, notifyVars,
                   histVars, hostVars, listenerVars, retryVars, buttonVars, groupBy, callbackVars, loggerVars>>

\* Mounted with any of the three groupBy values.
InitGrouping ==
    /\ state = initialState
    /\ scanProgress = 0 /\ error = None /\ scanStartTime = 0 /\ scanTimeoutRef = 0
    /\ rendered = [isScanning |-> FALSE, scanStartTime |-> 0]
    /\ timers = {} /\ nextTimerId = 1 /\ nextDate = 1
    /\ startCalls = 0 /\ stopCalls = 0 /\ backendRunning = FALSE /\ initPc = "done"
    /\ registered = {} /\ inflight = {} /\ nextEventId = 1
    /\ handled = <<>> /\ sent = <<>> /\ permission = "granted" /\ pluginWorks = TRUE
    /\ startOverlap = FALSE /\ consecStops = 0 /\ stopSnap = <<>>
    /\ ipToHostnameMap = EmptyMap /\ hosts = <<>>
    /\ mounted = TRUE /\ setups = {} /\ nextSetup = 1
    /\ listening = {} /\ listenerCleanupFunctions = <<>>
    /\ retryInterval = [active |-> FALSE, remaining |-> 0]
    /\ fetchCalls = 0 /\ renderedInfo = [info |-> None, current |-> TRUE]
    /\ ButtonInit
    /\ errorLog = <<>> /\ uncaught = <<>>
    /\ LoggerInit
    /\ renderedGroups = [services |-> <<>>, groups |-> <<>>]
    /\ groupBy \in GroupByValues

NextGrouping ==
    \/ GroupedServiceAdded
    \/ ServiceGroupingRender

SpecGrouping == InitGrouping /\ [][NextGrouping]_vars

\* How often a service is listed in the groups.
TimesListed(service, groups) ==
    LET N[i \in 0..Len(groups)] ==
            IF i = 0 THEN 0
            ELSE N[i - 1] + Cardinality({n \in DOMAIN groups[i].services :
                                            groups[i].services[n] = service})
    IN N[Len(groups)]

\* C25: grouping loses no service: whatever the list and the groupBy value, each
\* service of the list ServiceGrouping rendered is listed exactly once in the
\* rendered groups, the normalized 'NETWORK SCAN' group included.
C25_GroupingLosesNothing ==
    \A k \in DOMAIN renderedGroups.services :
        TimesListed(renderedGroups.services[k], renderedGroups.groups) = 1


\* ---------------------------------------------------------------------
\* fetchPublicNetworkInfo over what get_public_network_info can answer
\* ---------------------------------------------------------------------
\* What getPublicNetworkInfo rejects with: an Error (one thrown in its own try
\* block too), possibly with an empty message, or the error string of the command.
FetchErrors ==
    {[type |-> "Error", value |-> "timeout"],
     [type |-> "Error", value |-> ""],
     [type |-> "string", value |-> "no route"]}

\* err.message: the message of an Error, undefined (None) for a string.
ErrMessage(err) == IF err.type = "Error" THEN Some(err.value) ELSE None

\* getPublicNetworkInfo rejecting with err.
Rejected(err) == [kind |-> "rejected", message |-> ErrMessage(err)]

\* The Rust record's ip and internet_available: a boolean or left out.
PublicInfoAnswers ==
    [kind : {"resolved"}, ip : {Some("1.2.3.4"), Some(""), None},
     internet_available : {"undefined", "true", "false"}]

PublicInfoOutcomes == PublicInfoAnswers \cup {Rejected(err) : err \in FetchErrors}

\* A retry's getPublicNetworkInfo settles with outcome: fetchPublicNetworkInfo
\* goes on after its await.
FetchSettledWith(outcome) ==
    LET r == fetchPublicNetworkInfo(outcome) IN
    /\ fetchCalls > 0
    /\ fetchCalls' = fetchCalls - 1
    /\ state' = appReducer(state, [type |-> "SET_PUBLIC_INFO", info |-> r.info])
    /\ error' = r.error
    /\ renderedInfo' = [renderedInfo EXCEPT !.current = FALSE]
    /\ UNCHANGED <<scanProgress, scanStartTime, scanTimeoutRef, rendered, timerVars,
                   backendVars, eventVars, notifyVars, histVars, hostVars,
                   listenerVars, retryInterval, buttonVars, groupingVars, callbackVars, loggerVars>>

FetchSettled == \E outcome \in PublicInfoOutcomes : FetchSettledWith(outcome)

NextFetch ==
    \/ RetryTick
    \/ RetryFire
    \/ InitializeAppResume
    \/ RetryEffect
    \/ FetchSettled

SpecFetch == InitRetry /\ [][NextFetch]_vars

DefaultFetchError == "Failed to fetch public network information"

\* C26: a fetchPublicNetworkInfo call always ends by storing and returning a
\* record. When get_public_network_info failed, error is the failure's message,
\* or the default text when it has none, and the record stored is the fallback
\* with internet_available false and that error. When it succeeded without an
\* internet_available boolean, internet_available is true exactly when an IP is
\* present; a boolean that was given is kept.
C26_FetchNeverRejects ==
    /\ [][\A err \in FetchErrors :
              FetchSettledWith(Rejected(err)) =>
                  LET errorMessage == IF err.type = "Error" /\ err.value # ""
                                      THEN err.value ELSE DefaultFetchError
                  IN /\ fetchCalls' = fetchCalls - 1
                     /\ error' = Some(errorMessage)
                     /\ state'.publicNetworkInfo =
                            Some([internet_available |-> FALSE, public_ip |-> None,
                                  error |-> Some(errorMessage)])]_vars
    /\ [][\A answer \in PublicInfoAnswers :
              FetchSettledWith(answer) =>
                  /\ fetchCalls' = fetchCalls - 1
                  /\ state'.publicNetworkInfo # None
                  /\ state'.publicNetworkInfo[1].public_ip = answer.ip
                  /\ state'.publicNetworkInfo[1].internet_available =
                        IF answer.internet_available = "undefined"
                        THEN answer.ip \notin {None, Some("")}
                        ELSE answer.internet_available = "true"]_vars

\* A retry failed with a rejection that has no message: the default text is the
\* error, and the fallback record with it is stored.
C26_Witness ==
    /\ fetchCalls = 0
    /\ error = Some(DefaultFetchError)
    /\ state.publicNetworkInfo =
          Some([internet_available |-> FALSE, public_ip |-> None,
                error |-> Some(DefaultFetchError)])


\* ---------------------------------------------------------------------
\* A registered callback that throws
\* ---------------------------------------------------------------------
MaxThrows == 3

\* The listeners of setupScanListeners that call their callback inside
\* try { ... } catch (error) { logger.error(...) }.
TryCatchListeners == {"service-discovered", "scan-progress", "scan-complete", "scan-error"}

\* What the listener of eventName does with an exception of its callback: the
\* listeners above catch and log it; those of 'serviceDiscovered' and
\* 'service_discovered' call listeners.onServiceDiscovered?.(event.payload) bare.
ListenerOnThrow(eventName) ==
    IF eventName \in TryCatchListeners THEN "caught" ELSE "propagated"

\* An event with a listener arrives and the callback the listener calls throws
\* before it has changed anything. The listener stays registered.
ListenerCallbackThrows ==
    \E eventName \in registered :
        /\ Len(errorLog) + Len(uncaught) < MaxThrows
        /\ IF ListenerOnThrow(eventName) = "caught"
           THEN errorLog' = Append(errorLog, eventName) /\ UNCHANGED uncaught
           ELSE uncaught' = Append(uncaught, eventName) /\ UNCHANGED errorLog
        /\ UNCHANGED <<state, hookVars, timerVars, backendVars, eventVars, notifyVars,
                       histVars, hostVars, listenerVars, retryVars, buttonVars,
                       groupingVars, loggerVars>>

NextCallbacks == ListenerCallbackThrows

SpecCallbacks == InitScan /\ [][NextCallbacks]_vars

\* C27: an exception a registered callback throws while an event is handled is
\* caught and logged by the listener, for every event name listened on, the
\* aliases serviceDiscovered and service_discovered included: none escapes from
\* a listener, and every listener stays registered.
C27_CallbackErrorsCaught ==
    /\ uncaught = <<>>
    /\ registered = AllEventNames


\* ---------------------------------------------------------- logger levels
MaxLogCalls == 3

\* The UTF-16 code units of a level's string value.
CodeUnits(level) ==
    CASE level = "DEBUG" -> <<68, 69, 66, 85, 71>>
      [] level = "INFO"  -> <<73, 78, 70, 79>>
      [] level = "WARN"  -> <<87, 65, 82, 78>>
      [] level = "ERROR" -> <<69, 82, 82, 79, 82>>

\* a <= b on two strings: the first differing code unit decides, a prefix is
\* smaller than the longer string.
RECURSIVE CodeUnitsLessOrEqual(_, _)
CodeUnitsLessOrEqual(a, b) ==
    IF a = <<>> THEN TRUE
    ELSE IF b = <<>> THEN FALSE
    ELSE IF Head(a) # Head(b) THEN Head(a) < Head(b)
    ELSE CodeUnitsLessOrEqual(Tail(a), Tail(b))

\* currentConfig.minLevel <= LogLevel.X: the operands are the enum's string values.
LevelLessOrEqual(a, b) == CodeUnitsLessOrEqual(CodeUnits(a), CodeUnits(b))

\* The condition of logger.debug / info / warn / error:
\*   debug: enableConsole && minLevel === LogLevel.DEBUG
\*   other: enableConsole && minLevel <= LogLevel.<its level>
LoggerWrites(config, level) ==
    /\ config.enableConsole
    /\ IF level = "DEBUG"
       THEN config.minLevel = "DEBUG"
       ELSE LevelLessOrEqual(config.minLevel, level)

\* console.debug / console.info / console.warn / console.error
ConsoleMethod(level) ==
    CASE level = "DEBUG" -> "debug"
      [] level = "INFO"  -> "info"
      [] level = "WARN"  -> "warn"
      [] level = "ERROR" -> "error"

\* Partial<LoggerConfig>: any of the two fields given.
PartialConfigs ==
    {<<>>}
    \cup {[minLevel |-> m] : m \in LogLevel}
    \cup {[enableConsole |-> c] : c \in BOOLEAN}
    \cup {[minLevel |-> m, enableConsole |-> c] : m \in LogLevel, c \in BOOLEAN}

\* configureLogger(config): currentConfig = { ...currentConfig, ...config }
configureLogger ==
    \E config \in PartialConfigs :
        /\ currentConfig' = [f \in DOMAIN currentConfig |->
                                IF f \in DOMAIN config THEN config[f] ELSE currentConfig[f]]
        /\ UNCHANGED <<console, logCalls>>
        /\ UNCHANGED <<state, hookVars, timerVars, backendVars, eventVars, notifyVars,
                       histVars, hostVars, listenerVars, retryVars, buttonVars,
                       groupingVars, callbackVars>>

\* logger.debug / info / warn / error (message): one entry on the console with
\* the method of the level when the condition holds, nothing otherwise.
LoggerCallAt(level) ==
    /\ logCalls < MaxLogCalls
    /\ logCalls' = logCalls + 1
    /\ console' = IF LoggerWrites(currentConfig, level)
                  THEN Append(console, [method |-> ConsoleMethod(level), level |-> level])
                  ELSE console
    /\ UNCHANGED currentConfig
    /\ UNCHANGED <<state, hookVars, timerVars, backendVars, eventVars, notifyVars,
                   histVars, hostVars, listenerVars, retryVars, buttonVars,
                   groupingVars, callbackVars>>

LoggerCall == \E level \in LogLevel : LoggerCallAt(level)

\* The logger module loaded in a development or in a production build.
InitLogger ==
    /\ state = initialState
    /\ scanProgress = 0 /\ error = None /\ scanStartTime = 0 /\ scanTimeoutRef = 0
    /\ rendered = [isScanning |-> FALSE, scanStartTime |-> 0]
    /\ timers = {} /\ nextTimerId = 1 /\ nextDate = 1
    /\ startCalls = 0 /\ stopCalls = 0 /\ backendRunning = FALSE /\ initPc = "done"
    /\ registered = {} /\ inflight = {} /\ nextEventId = 1
    /\ handled = <<>> /\ sent = <<>> /\ permission = "granted" /\ pluginWorks = TRUE
    /\ startOverlap = FALSE /\ consecStops = 0 /\ stopSnap = <<>>
    /\ ipToHostnameMap = EmptyMap /\ hosts = <<>>
    /\ mounted = TRUE /\ setups = {} /\ nextSetup = 1
    /\ listening = {} /\ listenerCleanupFunctions = <<>>
    /\ retryInterval = [active |-> FALSE, remaining |-> 0]
    /\ fetchCalls = 0 /\ renderedInfo = [info |-> None, current |-> TRUE]
    /\ ButtonInit
    /\ groupBy = "discovery_method"
    /\ renderedGroups = [services |-> <<>>, groups |-> <<>>]
    /\ errorLog = <<>> /\ uncaught = <<>>
    /\ currentConfig \in {defaultConfig(isDev) : isDev \in BOOLEAN}
    /\ console = <<>>
    /\ logCalls = 0

NextLogger ==
    \/ configureLogger
    \/ LoggerCall

SpecLogger == InitLogger /\ [][NextLogger]_vars

\* The place of a level in the severity order DEBUG < INFO < WARN < ERROR.
Severity(level) ==
    CASE level = "DEBUG" -> 0
      [] level = "INFO"  -> 1
      [] level = "WARN"  -> 2
      [] level = "ERROR" -> 3

\* C28: for every minLevel and every message level, a call of the logger
\* writes to the console if and only if enableConsole is true and the
\* message's level is at or above minLevel in the order
\* DEBUG < INFO < WARN < ERROR; so an error message is written at every minLevel.
C28_LoggerHonoursMinLevel ==
    [][\A level \in LogLevel :
          LoggerCallAt(level) =>
              (console' # console <=>
                  /\ currentConfig.enableConsole
                  /\ Severity(level) >= Severity(currentConfig.minLevel))]_vars
====
